---- MODULE Spec2Model ----
(***************************************************************************)
(* A model of esm2cjs: the ComponentResolver that names Moodle AMD modules *)
(* from file paths (component-resolver, utils), and the build pipeline     *)
(* that hands the resolved name to the AMD transformer.                    *)
(*                                                                         *)
(* JavaScript strings are sequences of one-character strings, so that      *)
(* split, join, startsWith, replace and the regular expressions of the     *)
(* source are computed character by character.  JavaScript objects are     *)
(* sequences of <<key, value>> pairs in insertion order, which is the      *)
(* order Object.entries enumerates (no key of the model is integer-like).  *)
(***************************************************************************)
EXTENDS Integers, Sequences, FiniteSets, TLC

VARIABLES
    moodleRoot,      \* ComponentResolver.moodleRoot
    configFile,      \* <moodleRoot>/lib/components.json on disk
    componentCache,  \* ComponentResolver.componentCache
    subsystems,      \* ComponentResolver.subsystems
    pluginTypes,     \* ComponentResolver.pluginTypes
    lastCall,        \* the latest call on the resolver and what it returned or threw
    remembered,      \* one earlier getModuleNameFromPath call: its path and outcome
    siblings,        \* directories that exist next to the resolved files
    stats,           \* FileProcessor.stats
    pending,         \* processSingleFile calls waiting for their rollup build
    emitted,         \* the latest define(...) call written by generateBundle
    run,             \* the processMultipleFiles call under way
    written,         \* what the author of the file being transformed wrote
    source,          \* the content of the file being transformed
    passes           \* how many times an output was written back over the file

vars == <<moodleRoot, configFile, componentCache, subsystems, pluginTypes,
          lastCall, remembered, siblings, stats, pending, emitted, run, written,
          source, passes>>

(***************************************************************************)
(* Bounds of the model.                                                    *)
(***************************************************************************)
MaxSubsystems == 2   \* entries under "subsystems" in components.json
MaxPluginTypes == 2  \* entries under "plugintypes" in components.json
MaxNesting == 1      \* directories between amd/src and the file
MaxPending == 1      \* builds in flight at once
MaxFiles == 2        \* files handed to processSingleFile in one run

(***************************************************************************)
(* String literals of the source.                                          *)
(***************************************************************************)
S_amd == <<"a", "m", "d">>
S_src == <<"s", "r", "c">>
S_lib == <<"l", "i", "b">>
S_public_lib == <<"p", "u", "b", "l", "i", "c", "/", "l", "i", "b">>
S_core == <<"c", "o", "r", "e">>
S_core_ == <<"c", "o", "r", "e", "_">>
S_js == <<".", "j", "s">>
S_dot == <<".">>
S_dotdot == <<".", ".">>
S_unknown == <<"u", "n", "k", "n", "o", "w", "n">>
S_components_json == <<"l", "i", "b", "/", "c", "o", "m", "p", "o", "n", "e", "n", "t", "s", ".", "j", "s", "o", "n">>

(***************************************************************************)
(* Strings the inputs are built from.                                      *)
(***************************************************************************)
S_root == <<"/", "m">>
S_access == <<"a", "c", "c", "e", "s", "s">>
S_lib_access == <<"l", "i", "b", "/", "a", "c", "c", "e", "s", "s">>
S_mod == <<"m", "o", "d">>
S_mod_quiz == <<"m", "o", "d", "/", "q", "u", "i", "z">>
S_quiz == <<"q", "u", "i", "z">>
S_forum == <<"f", "o", "r", "u", "m">>
S_r == <<"r">>
S_x == <<"x">>
S_other == <<"o", "t", "h", "e", "r">>
S_mod_forum == <<"m", "o", "d", "/", "f", "o", "r", "u", "m">>
S_mod_quiz_r == <<"m", "o", "d", "/", "q", "u", "i", "z", "/", "r">>
S_theme == <<"t", "h", "e", "m", "e">>
S_mod_bs == <<"m", "o", "d", "\\">>
S_lib_amd == <<"l", "i", "b", "/", "a", "m", "d">>
S_x_js == <<"x", ".", "j", "s">>
S_x_txt == <<"x", ".", "t", "x", "t">>
S_a == <<"a">>
S_amd_bs_src == <<"a", "m", "d", "\\", "s", "r", "c">>

Lower == {"a", "b", "c", "d", "e", "f", "g", "h", "i", "j", "k", "l", "m",
          "n", "o", "p", "q", "r", "s", "t", "u", "v", "w", "x", "y", "z"}
Digit == {"0", "1", "2", "3", "4", "5", "6", "7", "8", "9"}

(***************************************************************************)
(* JavaScript values.                                                      *)
(***************************************************************************)
\* undefined, as a value no string of characters equals
Undefined == <<"undefined">>

\* ToBoolean of a string-or-undefined value
Truthy(v) == v # Undefined /\ v # <<>>

\* String.prototype.split with a one-character separator
RECURSIVE split(_, _)
split(s, c) ==
    IF \A i \in 1..Len(s) : s[i] # c
    THEN <<s>>
    ELSE LET k == CHOOSE i \in 1..Len(s) :
                      s[i] = c /\ \A j \in 1..(i - 1) : s[j] # c
         IN  <<SubSeq(s, 1, k - 1)>> \o split(SubSeq(s, k + 1, Len(s)), c)

\* Array.prototype.join
RECURSIVE join(_, _)
join(parts, sep) ==
    IF parts = <<>> THEN <<>>
    ELSE IF Len(parts) = 1 THEN parts[1]
    ELSE parts[1] \o sep \o join(Tail(parts), sep)

\* Array.prototype.indexOf: the 0-based index of the first element equal to x, or -1
indexOf(parts, x) ==
    IF \E i \in 1..Len(parts) : parts[i] = x
    THEN (CHOOSE i \in 1..Len(parts) :
              parts[i] = x /\ \A j \in 1..(i - 1) : parts[j] # x) - 1
    ELSE -1

\* parts[i] with a 0-based index: undefined out of range
at(parts, i) == IF i + 1 \in 1..Len(parts) THEN parts[i + 1] ELSE Undefined

\* Array.prototype.slice(from, to) with 0-based indices, to exclusive
slice(parts, from, to) ==
    IF from >= Len(parts) THEN <<>>
    ELSE SubSeq(parts, from + 1, IF to > Len(parts) THEN Len(parts) ELSE to)

\* String.prototype.startsWith
startsWith(s, p) == Len(p) <= Len(s) /\ SubSeq(s, 1, Len(p)) = p

\* String.prototype.endsWith
endsWith(s, p) == Len(p) <= Len(s) /\ SubSeq(s, Len(s) - Len(p) + 1, Len(s)) = p

\* String.prototype.substring(from) with a 0-based index
substring(s, from) == IF from >= Len(s) THEN <<>> ELSE SubSeq(s, from + 1, Len(s))

\* String.prototype.includes for one character
includes(s, c) == \E i \in 1..Len(s) : s[i] = c

\* s.replace(/c/g, r) for one character c and one character r
replaceAll(s, c, r) == [i \in 1..Len(s) |-> IF s[i] = c THEN r ELSE s[i]]

(***************************************************************************)
(* utils.js                                                                *)
(***************************************************************************)
\* filePath.replace(/\\/g, '/')
normalizePath(filePath) == replaceAll(filePath, "\\", "/")

\* path.posix's normalizeString: drops empty and '.' segments, resolves '..'
RECURSIVE normalizeSegments(_, _)
normalizeSegments(segs, acc) ==
    IF segs = <<>> THEN acc
    ELSE LET s == Head(segs)
         IN  IF s = <<>> \/ s = S_dot
             THEN normalizeSegments(Tail(segs), acc)
             ELSE IF s = S_dotdot
             THEN normalizeSegments(Tail(segs),
                      IF acc = <<>> THEN acc ELSE SubSeq(acc, 1, Len(acc) - 1))
             ELSE normalizeSegments(Tail(segs), Append(acc, s))

\* the length of the longest common prefix of two sequences
RECURSIVE commonPrefix(_, _)
commonPrefix(a, b) ==
    IF a = <<>> \/ b = <<>> \/ Head(a) # Head(b) THEN 0
    ELSE 1 + commonPrefix(Tail(a), Tail(b))

\* path.relative(from, to) of two absolute POSIX paths
relative(from, to) ==
    LET f == normalizeSegments(split(from, "/"), <<>>)
        t == normalizeSegments(split(to, "/"), <<>>)
        c == commonPrefix(f, t)
        up == [i \in 1..(Len(f) - c) |-> S_dotdot]
    IN  join(up \o SubSeq(t, c + 1, Len(t)), <<"/">>)

\* path.join(moodleRoot, rel) for a relative path written under the root
pathJoin(root, rel) == IF rel = <<>> THEN root ELSE root \o <<"/">> \o rel

\* isValidMoodleAmdPath(filePath)
isValidMoodleAmdPath(filePath) ==
    LET normalizedPath == normalizePath(filePath)
        parts == split(normalizedPath, "/")
        amdIndex == indexOf(parts, S_amd)
    IN  /\ amdIndex # -1
        /\ at(parts, amdIndex + 1) = S_src
        /\ Truthy(at(parts, amdIndex + 2))
        /\ endsWith(filePath, S_js)

(***************************************************************************)
(* JavaScript objects: <<key, value>> pairs in insertion order.            *)
(***************************************************************************)
\* obj[key], undefined when obj has no such key
objGet(obj, key) ==
    IF \E i \in 1..Len(obj) : obj[i][1] = key
    THEN obj[CHOOSE i \in 1..Len(obj) : obj[i][1] = key][2]
    ELSE Undefined

\* obj[key] = val: an existing key keeps its place in the enumeration order
objSet(obj, key, val) ==
    IF \E i \in 1..Len(obj) : obj[i][1] = key
    THEN [i \in 1..Len(obj) |-> IF obj[i][1] = key THEN <<key, val>> ELSE obj[i]]
    ELSE Append(obj, <<key, val>>)

(***************************************************************************)
(* The configuration file <moodleRoot>/lib/components.json.                *)
(*   kind "missing"      the file does not exist                           *)
(*   kind "unparseable"  the file exists and JSON.parse throws on it       *)
(*   kind "falsy"        the file parses to null, false, 0 or ""           *)
(*   kind "object"       the file parses to an object; subsystems and      *)
(*                       plugintypes are its entries (<<>> when absent),   *)
(*                       a null directory is the empty string              *)
(***************************************************************************)
NoFile == [kind |-> "missing", subsystems |-> <<>>, plugintypes |-> <<>>]
BadFile == [kind |-> "unparseable", subsystems |-> <<>>, plugintypes |-> <<>>]
NullFile == [kind |-> "falsy", subsystems |-> <<>>, plugintypes |-> <<>>]

\* a mutant of readJsonFile: a parse error is swallowed without a warning
readJsonFile_silent(file) ==
    [truthy |-> file.kind = "object", subsystems |-> file.subsystems,
     plugintypes |-> file.plugintypes, warned |-> FALSE]

\* readJsonFile(filePath): the parsed data (truthy only for an object), and
\* whether console.warn was called; it never throws
readJsonFile(file) ==
    IF file.kind = "missing"
    THEN [truthy |-> FALSE, subsystems |-> <<>>, plugintypes |-> <<>>, warned |-> FALSE]
    ELSE IF file.kind = "unparseable"
    THEN [truthy |-> FALSE, subsystems |-> <<>>, plugintypes |-> <<>>, warned |-> TRUE]
    ELSE [truthy |-> file.kind = "object", subsystems |-> file.subsystems,
          plugintypes |-> file.plugintypes, warned |-> FALSE]

(***************************************************************************)
(* component-resolver: class ComponentResolver                             *)
(***************************************************************************)
NullCache == [null |-> TRUE, subsystems |-> <<>>, plugintypes |-> <<>>]

\* for (const [name, dir] of Object.entries(componentsData.subsystems || {}))
RECURSIVE mapSubsystems(_, _)
mapSubsystems(entries, subs) ==
    IF entries = <<>> THEN subs
    ELSE LET name == Head(entries)[1]
             dir == Head(entries)[2]
         IN  mapSubsystems(Tail(entries),
                 IF Truthy(dir) THEN objSet(subs, dir, S_core_ \o name) ELSE subs)

\* for (const [type, dir] of Object.entries(componentsData.plugintypes || {}))
RECURSIVE mapPluginTypes(_, _)
mapPluginTypes(entries, plugs) ==
    IF entries = <<>> THEN plugs
    ELSE mapPluginTypes(Tail(entries),
             objSet(plugs, Head(entries)[2], Head(entries)[1]))

\* the two special cases: this.subsystems['public/lib'] = this.subsystems['lib'] = 'core'
specialCases(subs) == objSet(objSet(subs, S_public_lib, S_core), S_lib, S_core)

\* a mutant of getComponentMap: the loaded maps are returned but never kept
\* as the cache
getComponentMap_uncached(self, file) ==
    LET componentsData == readJsonFile(file)
        subs == IF componentsData.truthy
                THEN specialCases(mapSubsystems(componentsData.subsystems,
                                                self.subsystems))
                ELSE self.subsystems
        plugs == IF componentsData.truthy
                 THEN mapPluginTypes(componentsData.plugintypes, self.pluginTypes)
                 ELSE self.pluginTypes
    IN  [self |-> [cache |-> NullCache, subsystems |-> subs, pluginTypes |-> plugs],
         map |-> [null |-> FALSE, subsystems |-> subs, plugintypes |-> plugs],
         read |-> TRUE, warned |-> componentsData.warned]

\* a mutant of getComponentMap: a cache that is there is not looked at, the
\* file is read and the maps are filled again
getComponentMap_reloaded(self, file) ==
    LET componentsData == readJsonFile(file)
        subs == IF componentsData.truthy
                THEN specialCases(mapSubsystems(componentsData.subsystems,
                                                self.subsystems))
                ELSE self.subsystems
        plugs == IF componentsData.truthy
                 THEN mapPluginTypes(componentsData.plugintypes, self.pluginTypes)
                 ELSE self.pluginTypes
        cache == [null |-> FALSE, subsystems |-> subs, plugintypes |-> plugs]
    IN  [self |-> [cache |-> cache, subsystems |-> subs, pluginTypes |-> plugs],
         map |-> cache, read |-> self.cache.null, warned |-> componentsData.warned]

\* a mutant of getComponentMap: the cache keeps the maps as they were before
\* the file was read, and only the loading call sees the loaded maps
getComponentMap_cachedEarly(self, file) ==
    IF ~self.cache.null
    THEN [self |-> self, map |-> self.cache, read |-> FALSE, warned |-> FALSE]
    ELSE LET componentsData == readJsonFile(file)
             subs == IF componentsData.truthy
                     THEN specialCases(mapSubsystems(componentsData.subsystems,
                                                     self.subsystems))
                     ELSE self.subsystems
             plugs == IF componentsData.truthy
                      THEN mapPluginTypes(componentsData.plugintypes, self.pluginTypes)
                      ELSE self.pluginTypes
             early == [null |-> FALSE, subsystems |-> self.subsystems,
                       plugintypes |-> self.pluginTypes]
         IN  [self |-> [cache |-> early, subsystems |-> subs, pluginTypes |-> plugs],
              map |-> [null |-> FALSE, subsystems |-> subs, plugintypes |-> plugs],
              read |-> TRUE, warned |-> componentsData.warned]

\* getComponentMap() on the resolver self = [cache, subsystems, pluginTypes]:
\* the resolver afterwards, the map returned, and whether the file was read
getComponentMap(self, file) ==
    IF ~self.cache.null
    THEN [self |-> self, map |-> self.cache, read |-> FALSE, warned |-> FALSE]
    ELSE LET componentsData == readJsonFile(file)
             subs == IF componentsData.truthy
                     THEN specialCases(mapSubsystems(componentsData.subsystems,
                                                     self.subsystems))
                     ELSE self.subsystems
             plugs == IF componentsData.truthy
                      THEN mapPluginTypes(componentsData.plugintypes, self.pluginTypes)
                      ELSE self.pluginTypes
             cache == [null |-> FALSE, subsystems |-> subs, plugintypes |-> plugs]
         IN  [self |-> [cache |-> cache, subsystems |-> subs, pluginTypes |-> plugs],
              map |-> cache, read |-> TRUE, warned |-> componentsData.warned]

\* what a call returns (ok, value) or throws (error, and the path its message names)
Return(v) == [ok |-> TRUE, value |-> v, error |-> "none", path |-> <<>>]
Throw(e, p) == [ok |-> FALSE, value |-> <<>>, error |-> e, path |-> p]

\* pathToComponentName(componentPath)
trimUnderscores(s) ==
    LET keep == {i \in 1..Len(s) : s[i] # "_"}
    IN  IF keep = {} THEN <<>>
        ELSE SubSeq(s, CHOOSE i \in keep : \A j \in keep : i <= j,
                       CHOOSE i \in keep : \A j \in keep : i >= j)

\* a mutant of pathToComponentName: the underscores at the ends are kept
pathToComponentName_untrimmed(componentPath) ==
    IF ~Truthy(componentPath) \/ componentPath = S_dot THEN S_core
    ELSE IF componentPath = S_lib THEN S_core
    ELSE LET componentName == replaceAll(componentPath, "/", "_")
         IN  IF Truthy(componentName) THEN componentName ELSE S_core

pathToComponentName(componentPath) ==
    IF ~Truthy(componentPath) \/ componentPath = S_dot THEN S_core
    ELSE IF componentPath = S_lib THEN S_core
    ELSE LET componentName == trimUnderscores(replaceAll(componentPath, "/", "_"))
         IN  IF Truthy(componentName) THEN componentName ELSE S_core

\* isValidComponentName: /^(core|[a-z]+_[a-z][a-z0-9_]*)$/
isValidComponentName(componentName) ==
    \/ componentName = S_core
    \/ \E k \in 1..Len(componentName) :
          /\ \A i \in 1..k : componentName[i] \in Lower
          /\ k + 2 <= Len(componentName)
          /\ componentName[k + 1] = "_"
          /\ componentName[k + 2] \in Lower
          /\ \A i \in (k + 3)..Len(componentName) :
                componentName[i] \in Lower \cup Digit \cup {"_"}

\* a mutant of fallbackTier: names isValidComponentName rejects are thrown out
fallbackTier_validated(componentPath) ==
    LET fallbackName == pathToComponentName(componentPath)
    IN  IF ~isValidComponentName(fallbackName)
        THEN Throw("UnableToResolve", componentPath)
        ELSE Return(fallbackName)

\* the fallback tier of resolveComponentName
fallbackTier(componentPath) ==
    LET fallbackName == pathToComponentName(componentPath)
    IN  IF ~Truthy(fallbackName) \/ includes(fallbackName, "/")
        THEN Throw("UnableToResolve", componentPath)
        ELSE Return(fallbackName)

\* for (const [pluginRoot, type] of Object.entries(map.plugintypes)) ... then the fallback
RECURSIVE pluginTier(_, _)
pluginTier(entries, componentPath) ==
    IF entries = <<>> THEN fallbackTier(componentPath)
    ELSE LET pluginRoot == Head(entries)[1]
             type == Head(entries)[2]
         IN  IF startsWith(componentPath, pluginRoot \o <<"/">>)
             THEN LET pluginName == substring(componentPath, Len(pluginRoot) + 1)
                  IN  IF ~Truthy(pluginName)
                      THEN Throw("InvalidPluginPath", componentPath)
                      ELSE Return(type \o <<"_">> \o pluginName)
             ELSE pluginTier(Tail(entries), componentPath)

\* a mutant of resolveComponentName: plugin types are tried before subsystems
resolveComponentName_pluginsFirst(map, componentPath) ==
    LET viaPlugins == pluginTier(map.plugintypes, componentPath)
    IN  IF \E i \in 1..Len(map.plugintypes) :
               startsWith(componentPath, map.plugintypes[i][1] \o <<"/">>)
        THEN viaPlugins
        ELSE IF Truthy(objGet(map.subsystems, componentPath))
        THEN Return(objGet(map.subsystems, componentPath))
        ELSE viaPlugins

\* resolveComponentName(componentPath), given the map getComponentMap returned
resolveComponentName(map, componentPath) ==
    IF Truthy(objGet(map.subsystems, componentPath))
    THEN Return(objGet(map.subsystems, componentPath))
    ELSE pluginTier(map.plugintypes, componentPath)

\* a mutant of stripJs: the extension is kept
stripJs_kept(s) == s

\* fileParts.join('/').replace(/\.js$/, '')
stripJs(s) == IF endsWith(s, S_js) THEN SubSeq(s, 1, Len(s) - Len(S_js)) ELSE s

\* a mutant of emptyFileName: the check is left out
emptyFileName_unchecked(fileName) == FALSE

\* if (!fileName)
emptyFileName(fileName) == ~Truthy(fileName)

\* getModuleNameFromPath(filePath) on the resolver self: the outcome, the
\* resolver afterwards, and whether the configuration file was read
getModuleNameFromPath(self, root, file, filePath) ==
    LET relativePath == normalizePath(relative(root, filePath))
        parts == split(relativePath, "/")
        amdIndex == indexOf(parts, S_amd)
        componentPath == join(slice(parts, 0, amdIndex), <<"/">>)
        fileParts == slice(parts, amdIndex + 2, Len(parts))
        fileName == stripJs(join(fileParts, <<"/">>))
        loaded == getComponentMap(self, file)
        resolved == resolveComponentName(loaded.map, componentPath)
        quiet == [self |-> self, read |-> FALSE, warned |-> FALSE]
    IN  IF amdIndex = -1 \/ at(parts, amdIndex + 1) # S_src
        THEN [result |-> Throw("InvalidPath", relativePath)] @@ quiet
        ELSE IF emptyFileName(fileName)
        THEN [result |-> Throw("InvalidFileName", relativePath)] @@ quiet
        ELSE [result |-> IF resolved.ok
                         THEN Return(resolved.value \o <<"/">> \o fileName)
                         ELSE resolved,
              self |-> loaded.self, read |-> loaded.read, warned |-> loaded.warned]

(***************************************************************************)
(* Inputs.                                                                 *)
(***************************************************************************)
\* the sequences of at most n distinct elements of S
SeqsNoRep(S, n) ==
    {q \in UNION {[1..k -> S] : k \in 0..n} :
        \A i, j \in 1..Len(q) : i # j => q[i] # q[j]}

\* "subsystems" entries <<name, directory>>; the empty directory stands for null
SubsystemEntries ==
    {<<S_access, S_lib_access>>, <<S_quiz, S_mod_quiz>>, <<S_theme, <<>>>>}

\* "plugintypes" entries <<type, root directory>>
PluginTypeEntries ==
    {<<S_mod, S_mod>>, <<S_quiz, S_mod_quiz>>}

ConfigFiles ==
    {NoFile, BadFile, NullFile} \cup
    {[kind |-> "object", subsystems |-> ss, plugintypes |-> ps] :
        ss \in SeqsNoRep(SubsystemEntries, MaxSubsystems),
        ps \in SeqsNoRep(PluginTypeEntries, MaxPluginTypes)}

Roots == {S_root}

\* component directories below the root, as they are written in a file path
ComponentDirs ==
    {<<>>, S_lib, S_public_lib, S_lib_access, S_mod_forum, S_mod_quiz,
     S_mod_quiz_r, S_theme, S_mod_bs, S_lib_amd}

\* a/a/.../x.js with k directories above the file
RECURSIVE nested(_)
nested(k) == IF k = 0 THEN S_x_js ELSE S_a \o <<"/">> \o nested(k - 1)

\* what follows amd/src in a file path
Tails == {nested(k) : k \in 0..MaxNesting} \cup {S_js, S_x_txt, <<>>}

\* the non-empty pieces joined by '/'
under(pieces) == join(SelectSeq(pieces, LAMBDA x : x # <<>>), <<"/">>)

\* relative paths of candidate files: well-formed markers with every
\* directory and tail, malformed markers with a few of them
RelativePaths ==
    {under(<<d, S_amd, S_src, t>>) : d \in ComponentDirs, t \in Tails} \cup
    {under(<<d, m, t>>) : d \in {<<>>, S_mod_forum},
                          m \in {S_amd, S_src, S_amd_bs_src},
                          t \in {S_x_js, <<>>}}

FilePaths(root) == {pathJoin(root, rel) : rel \in RelativePaths}

\* component paths passed to resolveComponentName directly
ComponentPaths ==
    {normalizePath(d) : d \in ComponentDirs} \cup {S_dot, S_mod}

(***************************************************************************)
(* State after construction.                                               *)
(***************************************************************************)
NoCall == [op |-> "new", arg |-> <<>>, result |-> Return(<<>>),
           read |-> FALSE, warned |-> FALSE]
NotRemembered == [set |-> FALSE, arg |-> <<>>, result |-> Return(<<>>),
                  read |-> FALSE, siblings |-> {}]
NoStats == [processed |-> 0, succeeded |-> 0, failed |-> 0, skipped |-> 0]
NotEmitted == [set |-> FALSE, file |-> <<>>, id |-> <<>>]
NoRun == [active |-> FALSE, files |-> <<>>, concurrency |-> 1, batch |-> 0,
          results |-> <<>>, slots |-> <<>>]
NoText == [kind |-> "none", name |-> <<>>, deps |-> <<>>, quote |-> "\"",
           comma |-> FALSE, params |-> <<>>, body |-> <<>>, statements |-> <<>>]

\* new ComponentResolver(moodleRoot), with any configuration file on disk
Init ==
    /\ moodleRoot \in Roots
    /\ configFile \in ConfigFiles
    /\ componentCache = NullCache
    /\ subsystems = <<>>
    /\ pluginTypes = <<>>
    /\ lastCall = NoCall
    /\ remembered = NotRemembered
    /\ siblings = {}
    /\ stats = NoStats
    /\ pending = <<>>
    /\ emitted = NotEmitted
    /\ run = NoRun
    /\ written = NoText
    /\ source = <<>>
    /\ passes = 0

self == [cache |-> componentCache, subsystems |-> subsystems,
         pluginTypes |-> pluginTypes]

\* the resolver's fields after a call
Becomes(after) ==
    /\ componentCache' = after.cache
    /\ subsystems' = after.subsystems
    /\ pluginTypes' = after.pluginTypes

(***************************************************************************)
(* Operations of the resolver.  The caller is synchronous: it makes a call *)
(* when it holds no outcome, and takes the outcome before its next call.   *)
(***************************************************************************)
Idle == lastCall.op = "new"

GetModuleNameFromPath(filePath) ==
    LET r == getModuleNameFromPath(self, moodleRoot, configFile, filePath)
    IN  /\ Idle
        /\ Becomes(r.self)
        /\ lastCall' = [op |-> "getModuleNameFromPath", arg |-> filePath,
                        result |-> r.result, read |-> r.read, warned |-> r.warned]
        /\ UNCHANGED <<moodleRoot, configFile, remembered, siblings, stats, pending, emitted,
                   run, written, source, passes>>

ResolveComponentName(componentPath) ==
    LET loaded == getComponentMap(self, configFile)
    IN  /\ Idle
        /\ Becomes(loaded.self)
        /\ lastCall' = [op |-> "resolveComponentName", arg |-> componentPath,
                        result |-> resolveComponentName(loaded.map, componentPath),
                        read |-> loaded.read, warned |-> loaded.warned]
        /\ UNCHANGED <<moodleRoot, configFile, remembered, siblings, stats, pending, emitted,
                   run, written, source, passes>>

GetSubsystems ==
    LET loaded == getComponentMap(self, configFile)
    IN  /\ Idle
        /\ Becomes(loaded.self)
        /\ lastCall' = [op |-> "getSubsystems", arg |-> <<>>,
                        result |-> Return(loaded.map.subsystems),
                        read |-> loaded.read, warned |-> loaded.warned]
        /\ UNCHANGED <<moodleRoot, configFile, remembered, siblings, stats, pending, emitted,
                   run, written, source, passes>>

GetPluginTypes ==
    LET loaded == getComponentMap(self, configFile)
    IN  /\ Idle
        /\ Becomes(loaded.self)
        /\ lastCall' = [op |-> "getPluginTypes", arg |-> <<>>,
                        result |-> Return(loaded.map.plugintypes),
                        read |-> loaded.read, warned |-> loaded.warned]
        /\ UNCHANGED <<moodleRoot, configFile, remembered, siblings, stats, pending, emitted,
                   run, written, source, passes>>

ClearCache ==
    /\ Idle
    /\ componentCache' = NullCache
    /\ subsystems' = <<>>
    /\ pluginTypes' = <<>>
    /\ lastCall' = [op |-> "clearCache", arg |-> <<>>, result |-> Return(<<>>),
                    read |-> FALSE, warned |-> FALSE]
    /\ UNCHANGED <<moodleRoot, configFile, remembered, siblings, stats, pending, emitted,
                   run, written, source, passes>>

\* the discovery filter's check of one path; it leaves the resolver alone
IsValidMoodleAmdPath(filePath) ==
    /\ Idle
    /\ lastCall' = [op |-> "isValidMoodleAmdPath", arg |-> filePath,
                    result |-> [Return(<<>>) EXCEPT !.ok = isValidMoodleAmdPath(filePath)],
                    read |-> FALSE, warned |-> FALSE]
    /\ UNCHANGED <<moodleRoot, configFile, componentCache, subsystems, pluginTypes,
                   remembered, siblings, stats, pending, emitted,
                   run, written, source, passes>>

\* the caller takes the value returned or catches the error thrown, and goes on
TakeResult ==
    /\ ~Idle
    /\ lastCall' = NoCall
    /\ UNCHANGED <<moodleRoot, configFile, componentCache, subsystems, pluginTypes,
                   remembered, siblings, stats, pending, emitted,
                   run, written, source, passes>>

Next ==
    \/ \E filePath \in FilePaths(moodleRoot) : GetModuleNameFromPath(filePath)
    \/ \E componentPath \in ComponentPaths : ResolveComponentName(componentPath)
    \/ GetSubsystems
    \/ GetPluginTypes
    \/ ClearCache
    \/ \E filePath \in FilePaths(moodleRoot) : IsValidMoodleAmdPath(filePath)
    \/ TakeResult

Spec == Init /\ [][Next]_vars

(***************************************************************************)
(* Repeated naming: the caller keeps the outcome of one call to compare    *)
(* later calls with, while the cache is cleared and refilled and           *)
(* directories beside the files come and go.                               *)
(***************************************************************************)
PureRelativePaths ==
    {under(<<d, S_amd, S_src, S_x_js>>) :
        d \in {S_lib_access, S_public_lib, S_mod_quiz_r, S_mod_bs}} \cup
    {under(<<S_theme, S_amd, S_src, nested(MaxNesting)>>),
     under(<<S_amd, S_src, S_js>>)}

PureFilePaths(root) == {pathJoin(root, rel) : rel \in PureRelativePaths}

SiblingDirs == {S_other}

\* the caller keeps the name (or the error) it was given, for later comparison
KeepResult ==
    /\ lastCall.op = "getModuleNameFromPath"
    /\ ~remembered.set
    /\ remembered' = [set |-> TRUE, arg |-> lastCall.arg, result |-> lastCall.result,
                      read |-> lastCall.read, siblings |-> siblings]
    /\ lastCall' = NoCall
    /\ UNCHANGED <<moodleRoot, configFile, componentCache, subsystems, pluginTypes,
                   siblings, stats, pending, emitted,
                   run, written, source, passes>>

\* a directory beside the files is created or removed
TouchSibling(dir) ==
    /\ siblings' = IF dir \in siblings THEN siblings \ {dir} ELSE siblings \cup {dir}
    /\ UNCHANGED <<moodleRoot, configFile, componentCache, subsystems, pluginTypes,
                   lastCall, remembered, stats, pending, emitted,
                   run, written, source, passes>>

NextPure ==
    \/ \E filePath \in PureFilePaths(moodleRoot) : GetModuleNameFromPath(filePath)
    \/ KeepResult
    \/ TakeResult
    \/ GetSubsystems
    \/ ClearCache
    \/ \E dir \in SiblingDirs : TouchSibling(dir)

SpecPure == Init /\ [][NextPure]_vars

(***************************************************************************)
(* file-processor and amd-transformer: one file through the build.         *)
(***************************************************************************)
BuildRelativePaths ==
    {under(<<S_mod_forum, S_amd, S_src, S_x_js>>),
     under(<<S_lib_access, S_amd, S_src, nested(MaxNesting)>>),
     under(<<S_mod_bs, S_amd, S_src, S_x_js>>),
     under(<<S_mod_forum, S_src, S_x_js>>)}

BuildFilePaths(root) == {pathJoin(root, rel) : rel \in BuildRelativePaths}

BuildConfigs ==
    {NoFile, BadFile,
     [kind |-> "object", subsystems |-> << <<S_access, S_lib_access>> >>,
      plugintypes |-> << <<S_mod, S_mod>> >>]}

InitBuild == Init /\ configFile \in BuildConfigs

\* const amdId = rollupOptions.amd?.id || 'unknown'
amdIdOf(id) == IF Truthy(id) THEN id ELSE S_unknown

count(field) == [stats EXCEPT ![field] = @ + 1, !.processed = @ + 1]

\* processSingleFile(filePath) up to its await: the name is resolved; an
\* error is caught and counted, otherwise the rollup build is started with
\* amd.id = moduleName
ProcessSingleFile(filePath) ==
    LET r == getModuleNameFromPath(self, moodleRoot, configFile, filePath)
    IN  /\ Idle
        /\ stats.processed + Len(pending) < MaxFiles
        /\ Len(pending) < MaxPending
        /\ Becomes(r.self)
        /\ IF r.result.ok
           THEN /\ pending' = Append(pending, [file |-> filePath, id |-> r.result.value])
                /\ stats' = stats
           ELSE /\ pending' = pending
                /\ stats' = count("failed")
        /\ UNCHANGED <<moodleRoot, configFile, lastCall, remembered, siblings, emitted,
                   run, written, source, passes>>

\* bundle.write calls generateBundle with the output options of buildFile;
\* the define(...) call is written and processSingleFile counts a success
BuildSucceeds(i) ==
    /\ i \in 1..Len(pending)
    /\ emitted' = [set |-> TRUE, file |-> pending[i].file, id |-> amdIdOf(pending[i].id)]
    /\ pending' = SubSeq(pending, 1, i - 1) \o SubSeq(pending, i + 1, Len(pending))
    /\ stats' = count("succeeded")
    /\ UNCHANGED <<moodleRoot, configFile, componentCache, subsystems, pluginTypes,
                   lastCall, remembered, siblings,
                   run, written, source, passes>>

\* rollup or bundle.write rejects: buildFile rethrows, processSingleFile
\* catches and counts a failure, and nothing is written
BuildFails(i) ==
    /\ i \in 1..Len(pending)
    /\ pending' = SubSeq(pending, 1, i - 1) \o SubSeq(pending, i + 1, Len(pending))
    /\ stats' = count("failed")
    /\ UNCHANGED <<moodleRoot, configFile, componentCache, subsystems, pluginTypes,
                   lastCall, remembered, siblings, emitted,
                   run, written, source, passes>>

\* the plugin of createRollupPlugin(inputFilePath) in a bundler whose output
\* options carry no amd.id, or an empty one: generateBundle writes the chunk
GenerateBundle(inputFilePath, id) ==
    /\ emitted' = [set |-> TRUE, file |-> inputFilePath, id |-> amdIdOf(id)]
    /\ UNCHANGED <<moodleRoot, configFile, componentCache, subsystems, pluginTypes,
                   lastCall, remembered, siblings, stats, pending,
                   run, written, source, passes>>

NextBuild ==
    \/ \E filePath \in BuildFilePaths(moodleRoot) : ProcessSingleFile(filePath)
    \/ \E i \in 1..MaxPending : BuildSucceeds(i)
    \/ \E i \in 1..MaxPending : BuildFails(i)
    \/ \E filePath \in BuildFilePaths(moodleRoot), id \in {Undefined, <<>>} :
           GenerateBundle(filePath, id)

SpecBuild == InitBuild /\ [][NextBuild]_vars

(***************************************************************************)
(* Properties of the resolver, checked under Spec.                         *)
(***************************************************************************)
Named == lastCall.op = "getModuleNameFromPath"
Resolved == lastCall.op = "resolveComponentName"

\* a/a/.../x with k directories above the file: a file sub-path without its extension
RECURSIVE stem(_)
stem(k) == IF k = 0 THEN S_x ELSE S_a \o <<"/">> \o stem(k - 1)
Stems == {stem(k) : k \in 0..MaxNesting}

\* the file <moodleRoot>/<dir>/amd/src/<F>.js
SourceFile(dir, F) ==
    pathJoin(moodleRoot,
             dir \o <<"/">> \o S_amd \o <<"/">> \o S_src \o <<"/">> \o F \o S_js)

hasAmdSegment(dir) == \E i \in 1..Len(split(dir, "/")) : split(dir, "/")[i] = S_amd
PluginNames == {S_forum, S_quiz, S_r}
ExampleConfig ==
    [kind |-> "object", subsystems |-> << <<S_access, S_lib_access>> >>,
     plugintypes |-> << <<S_mod, S_mod>> >>]

\* C1 as stated: with a subsystem entry name -> dir and a plugin-type entry
\* type -> root in the configuration, every dir/amd/src/F.js is named
\* core_name/F, every root/P/amd/src/F.js is named type_P/F and every
\* lib/amd/src/F.js is named core/F.
C1_AsStated ==
    (Named /\ configFile.kind = "object") =>
        \A F \in Stems :
            /\ \A i \in 1..Len(configFile.subsystems) :
                  LET name == configFile.subsystems[i][1]
                      dir == configFile.subsystems[i][2]
                  IN  (dir # <<>> /\ lastCall.arg = SourceFile(dir, F))
                          => lastCall.result = Return(S_core_ \o name \o <<"/">> \o F)
            /\ \A i \in 1..Len(configFile.plugintypes), P \in PluginNames :
                  LET type == configFile.plugintypes[i][1]
                      root == configFile.plugintypes[i][2]
                  IN  lastCall.arg = SourceFile(root \o <<"/">> \o P, F)
                          => lastCall.result =
                                 Return(type \o <<"_">> \o P \o <<"/">> \o F)
            /\ lastCall.arg = SourceFile(S_lib, F)
                  => lastCall.result = Return(S_core \o <<"/">> \o F)

\* C1 as amended: dir/amd/src/F.js is named core_name/F when dir is not lib or
\* public/lib, has no segment amd and is the directory of no later subsystem
\* entry; root/P/amd/src/F.js is named type_P/F when root/P has no segment amd,
\* is no subsystem directory nor lib or public/lib, no earlier plugin-type
\* root followed by '/' is a prefix of root/P and no later plugin-type entry
\* has the same root; lib/amd/src/F.js is named core/F; F keeps its '/'
\* separators and loses only the .js extension.
C1_Named ==
    (Named /\ configFile.kind = "object") =>
        \A F \in Stems :
            /\ \A i \in 1..Len(configFile.subsystems) :
                  LET name == configFile.subsystems[i][1]
                      dir == configFile.subsystems[i][2]
                  IN  (/\ dir # <<>>
                       /\ lastCall.arg = SourceFile(dir, F)
                       /\ dir \notin {S_lib, S_public_lib}
                       /\ ~hasAmdSegment(dir)
                       /\ \A j \in (i + 1)..Len(configFile.subsystems) :
                              configFile.subsystems[j][2] # dir)
                          => lastCall.result = Return(S_core_ \o name \o <<"/">> \o F)
            /\ \A i \in 1..Len(configFile.plugintypes), P \in PluginNames :
                  LET type == configFile.plugintypes[i][1]
                      root == configFile.plugintypes[i][2]
                      dir == root \o <<"/">> \o P
                  IN  (/\ lastCall.arg = SourceFile(dir, F)
                       /\ dir \notin {S_lib, S_public_lib}
                       /\ ~hasAmdSegment(dir)
                       /\ \A j \in 1..Len(configFile.subsystems) :
                              configFile.subsystems[j][2] # dir
                       /\ \A j \in 1..(i - 1) :
                              ~startsWith(dir, configFile.plugintypes[j][2] \o <<"/">>)
                       /\ \A j \in (i + 1)..Len(configFile.plugintypes) :
                              configFile.plugintypes[j][2] # root)
                          => lastCall.result =
                                 Return(type \o <<"_">> \o P \o <<"/">> \o F)
            /\ lastCall.arg = SourceFile(S_lib, F)
                  => lastCall.result = Return(S_core \o <<"/">> \o F)

\* C1's case: under {access: lib/access} and {mod: mod}, the nested file
\* mod/forum/amd/src/a/x.js has been named mod_forum/a/x
C1_Witness ==
    /\ Named
    /\ configFile = ExampleConfig
    /\ lastCall.arg = SourceFile(S_mod_forum, stem(1))
    /\ lastCall.result = Return(S_mod \o <<"_">> \o S_forum \o <<"/">> \o stem(1))

\* the first plugin-type entry, in registry order, whose root + '/' prefixes the path
PrefixMatches(componentPath) ==
    {i \in 1..Len(pluginTypes) :
        startsWith(componentPath, pluginTypes[i][1] \o <<"/">>)}
FirstMatch(componentPath) ==
    CHOOSE i \in PrefixMatches(componentPath) :
        \A j \in PrefixMatches(componentPath) : i <= j
IsSubsystem(componentPath) ==
    \E i \in 1..Len(subsystems) : subsystems[i][1] = componentPath

\* C2: resolveComponentName returns the subsystem whose directory is exactly
\* the path, whatever plugin type prefixes it; otherwise type_remainder of the
\* first plugin-type entry, in registry order, whose root + '/' is a prefix of
\* the path; and the path-derived name only when neither matches.
C2_TierOrder ==
    Resolved =>
        LET cp == lastCall.arg
            remainder == SubSeq(cp, Len(pluginTypes[FirstMatch(cp)][1]) + 2, Len(cp))
        IN  /\ IsSubsystem(cp) =>
                \E i \in 1..Len(subsystems) :
                    subsystems[i][1] = cp /\ lastCall.result = Return(subsystems[i][2])
            /\ (~IsSubsystem(cp) /\ PrefixMatches(cp) # {}) =>
                IF remainder = <<>>
                THEN lastCall.result.error = "InvalidPluginPath"
                ELSE lastCall.result =
                         Return(pluginTypes[FirstMatch(cp)][2] \o <<"_">> \o remainder)
            /\ (~IsSubsystem(cp) /\ PrefixMatches(cp) = {}) =>
                lastCall.result = Return(pathToComponentName(cp))

\* C2's case: mod/quiz is a subsystem directory and is prefixed by the plugin
\* root mod; it has been resolved to the subsystem core_quiz
C2_Witness ==
    /\ Resolved
    /\ lastCall.arg = S_mod_quiz
    /\ IsSubsystem(S_mod_quiz)
    /\ PrefixMatches(S_mod_quiz) # {}
    /\ lastCall.result = Return(S_core_ \o S_quiz)

\* C3 as stated: whatever the configuration file holds, and also when it is
\* absent or unusable, lib and public/lib resolve to core.
C3_AsStated ==
    (Resolved /\ lastCall.arg \in {S_lib, S_public_lib})
        => lastCall.result = Return(S_core)

\* the errors getModuleNameFromPath raises for the path of one file
PerFileErrors == {"InvalidPath", "InvalidFileName"}

\* C4: with no configuration file the load raises no error, both maps are
\* empty, and every resolution returns the path-derived name.
C4_MissingFile ==
    configFile.kind = "missing" =>
        /\ subsystems = <<>> /\ pluginTypes = <<>>
        /\ componentCache.subsystems = <<>> /\ componentCache.plugintypes = <<>>
        /\ lastCall.op \in {"getSubsystems", "getPluginTypes"}
               => lastCall.result = Return(<<>>)
        /\ Resolved =>
               /\ lastCall.result.ok
               /\ lastCall.result.value =
                      IF lastCall.arg \in {<<>>, S_dot, S_lib} THEN S_core
                      ELSE trimUnderscores(replaceAll(lastCall.arg, "/", "_"))
        /\ Named => (lastCall.result.ok \/ lastCall.result.error \in PerFileErrors)

\* C4's case: the call that found no configuration file has resolved mod/forum
C4_Witness ==
    /\ configFile.kind = "missing"
    /\ Resolved
    /\ lastCall.read
    /\ lastCall.arg = S_mod_forum
    /\ lastCall.result = Return(S_mod \o <<"_">> \o S_forum)

firstSlash(s) ==
    IF includes(s, "/")
    THEN CHOOSE i \in 1..Len(s) : s[i] = "/" /\ \A j \in 1..(i - 1) : s[j] # "/"
    ELSE 0

\* C7: an identifier getModuleNameFromPath returns has a '/', something
\* before its first '/' and something after it.
C7_IdentifierShape ==
    (Named /\ lastCall.result.ok) =>
        /\ firstSlash(lastCall.result.value) > 1
        /\ firstSlash(lastCall.result.value) < Len(lastCall.result.value)

\* C7's case: a file directly under <moodleRoot>/amd/src, whose component
\* path is empty, has been named core/x
C7_Witness ==
    /\ Named
    /\ lastCall.arg = pathJoin(moodleRoot, under(<<S_amd, S_src, S_x_js>>))
    /\ lastCall.result = Return(S_core \o <<"/">> \o S_x)

\* C8 as stated: the component part of a returned identifier is core or a
\* lowercase, underscore-delimited type_name.
C8_AsStated ==
    (Named /\ lastCall.result.ok) =>
        isValidComponentName(
            SubSeq(lastCall.result.value, 1, firstSlash(lastCall.result.value) - 1))

\* the shape C9 describes: a segment amd directly followed by a segment src
\* and then a non-empty segment, in a path whose file name ends in .js
StatedShape(filePath) ==
    LET parts == split(normalizePath(filePath), "/")
    IN  /\ \E i \in 1..Len(parts) :
              /\ parts[i] = S_amd
              /\ i + 2 <= Len(parts)
              /\ parts[i + 1] = S_src
              /\ \E j \in (i + 2)..Len(parts) : parts[j] # <<>>
        /\ endsWith(parts[Len(parts)], S_js)

\* C9 as stated: a path passes the check exactly when it has that shape, and
\* a rejected path is named by the error.
C9_AsStated ==
    /\ Named =>
          /\ (lastCall.result.error \notin PerFileErrors) <=> StatedShape(lastCall.arg)
          /\ lastCall.result.error \in PerFileErrors =>
                 lastCall.result.path = normalizePath(relative(moodleRoot, lastCall.arg))
    /\ lastCall.op = "isValidMoodleAmdPath" =>
          (lastCall.result.ok <=> StatedShape(lastCall.arg))

(***************************************************************************)
(* Properties of repeated naming, checked under SpecPure.                  *)
(***************************************************************************)
\* C10: a call of getModuleNameFromPath returns what an earlier call with the
\* same path returned, whatever was resolved in between, whether or not the
\* registry was cached, and whichever sibling directories exist.
C10_SameResult ==
    (Named /\ remembered.set /\ remembered.arg = lastCall.arg)
        => lastCall.result = remembered.result

\* C10's case: lib/access/amd/src/x.js was first named by the call that read
\* the configuration, and has been named again from the cache after a
\* sibling directory appeared or disappeared
C10_Witness ==
    /\ Named
    /\ remembered.set
    /\ remembered.arg = lastCall.arg
    /\ lastCall.arg = SourceFile(S_lib_access, S_x)
    /\ remembered.read /\ ~lastCall.read
    /\ remembered.siblings # siblings
    /\ lastCall.result = Return(S_core_ \o S_access \o <<"/">> \o S_x)

(***************************************************************************)
(* Properties of the build of one file, checked under SpecBuild.           *)
(***************************************************************************)
\* C6 as stated: the identifier of an emitted define(...) call is the one
\* getModuleNameFromPath resolves for that file's path; a file with no
\* resolvable identifier is not emitted under a default identifier.
C6_AsStated ==
    emitted.set =>
        LET r == getModuleNameFromPath(self, moodleRoot, configFile, emitted.file).result
        IN  r.ok /\ r.value = emitted.id

(***************************************************************************)
(* Regular expressions.  A pattern is a tree of records; Exec is the       *)
(* backtracking search of RegExp.prototype.exec: alternatives are tried in *)
(* order, a greedy repetition tries the longest run first and a lazy one   *)
(* the shortest, and the first way that matches the whole pattern wins.    *)
(* Positions count the characters already consumed.                        *)
(***************************************************************************)
Upper == {"A", "B", "C", "D", "E", "F", "G", "H", "I", "J", "K", "L", "M",
          "N", "O", "P", "Q", "R", "S", "T", "U", "V", "W", "X", "Y", "Z"}
Space == {" ", "\n", "\t"}                       \* \s
Word == Lower \cup Upper \cup Digit \cup {"_"}   \* \w
Backtick == "backtick"                           \* the character `
Quote == {"'", "\"", Backtick}                   \* ['"`]

Chr(S) == [t |-> "chr", set |-> S]                       \* [...]
NotChr(S) == [t |-> "not", set |-> S]                    \* [^...]
AnyChr == [t |-> "not", set |-> {}]                      \* [\s\S]
Lit(str) == [t |-> "lit", str |-> str]                   \* literal characters
Star(atom) == [t |-> "rep", atom |-> atom, min |-> 0, greedy |-> TRUE]   \* x*
Plus(atom) == [t |-> "rep", atom |-> atom, min |-> 1, greedy |-> TRUE]   \* x+
Lazy(atom) == [t |-> "rep", atom |-> atom, min |-> 0, greedy |-> FALSE]  \* x*?
Opt(re) == [t |-> "opt", re |-> re]                      \* x?
Cat(res) == [t |-> "cat", res |-> res]                   \* xyz
Alt(res) == [t |-> "alt", res |-> res]                   \* x|y|z
Grp(k, re) == [t |-> "grp", k |-> k, re |-> re]          \* the k-th (...)
Bol == [t |-> "bol"]                                     \* ^
Eol == [t |-> "eol"]                                     \* $
Sp == Star(Chr(Space))                                   \* \s*
Sp1 == Plus(Chr(Space))                                  \* \s+

NoCapture == <<-1, -1>>

\* does the one-character pattern accept c
accepts(atom, c) == IF atom.t = "chr" THEN c \in atom.set ELSE c \notin atom.set

\* the length of the longest run of characters from position i the atom
\* accepts, counted eight at a time where eight more are accepted
RECURSIVE runLength(_, _, _)
runLength(atom, s, i) ==
    IF i + 8 <= Len(s) /\ \A j \in (i + 1)..(i + 8) : accepts(atom, s[j])
    THEN 8 + runLength(atom, s, i + 8)
    ELSE IF i < Len(s) /\ accepts(atom, s[i + 1]) THEN 1 + runLength(atom, s, i + 1)
    ELSE 0

\* the ways re matches s from position i, best first: each is the position
\* reached and the captures made
RECURSIVE Ways(_, _, _, _), WaysCat(_, _, _, _, _), WaysAlt(_, _, _, _, _),
          Continue(_, _, _, _, _, _)
Ways(re, s, i, caps) ==
    CASE re.t \in {"chr", "not"} ->
             IF i < Len(s) /\ accepts(re, s[i + 1])
             THEN <<[pos |-> i + 1, caps |-> caps]>> ELSE <<>>
      [] re.t = "lit" ->
             IF i + Len(re.str) <= Len(s) /\ SubSeq(s, i + 1, i + Len(re.str)) = re.str
             THEN <<[pos |-> i + Len(re.str), caps |-> caps]>> ELSE <<>>
      [] re.t = "rep" ->
             LET lengths(n) ==
                     IF n < re.min THEN <<>>
                     ELSE IF re.greedy
                     THEN [k \in 1..(n - re.min + 1) |->
                              [pos |-> i + n - k + 1, caps |-> caps]]
                     ELSE [k \in 1..(n - re.min + 1) |->
                              [pos |-> i + re.min + k - 1, caps |-> caps]]
             IN  lengths(runLength(re.atom, s, i))
      [] re.t = "opt" -> Ways(re.re, s, i, caps) \o <<[pos |-> i, caps |-> caps]>>
      [] re.t = "cat" -> WaysCat(re.res, 1, s, i, caps)
      [] re.t = "alt" -> WaysAlt(re.res, 1, s, i, caps)
      [] re.t = "grp" ->
             LET inner == Ways(re.re, s, i, caps)
             IN  [k \in 1..Len(inner) |->
                     [pos |-> inner[k].pos,
                      caps |-> [inner[k].caps EXCEPT ![re.k] = <<i, inner[k].pos>>]]]
      [] re.t = "bol" -> IF i = 0 THEN <<[pos |-> i, caps |-> caps]>> ELSE <<>>
      [] re.t = "eol" -> IF i = Len(s) THEN <<[pos |-> i, caps |-> caps]>> ELSE <<>>

\* the k-th and later parts of a concatenation
WaysCat(res, k, s, i, caps) ==
    IF k > Len(res) THEN <<[pos |-> i, caps |-> caps]>>
    ELSE LET ways == Ways(res[k], s, i, caps)
         IN  Continue(res, k, s, ways, 1, Len(ways))

\* carry on after each of the ways from..to of the k-th part, in order
Continue(res, k, s, ways, from, to) ==
    IF from > to THEN <<>>
    ELSE IF from = to THEN WaysCat(res, k + 1, s, ways[from].pos, ways[from].caps)
    ELSE LET mid == (from + to) \div 2
         IN  Continue(res, k, s, ways, from, mid) \o Continue(res, k, s, ways, mid + 1, to)

\* the k-th and later alternatives
WaysAlt(res, k, s, i, caps) ==
    IF k > Len(res) THEN <<>>
    ELSE Ways(res[k], s, i, caps) \o WaysAlt(res, k + 1, s, i, caps)

NoMatch == [found |-> FALSE, start |-> -1, end |-> -1, caps |-> <<>>]

\* can a match of re start at position p: the literal a pattern begins with is there
startsHere(re, s, p) ==
    IF re.t = "cat" /\ re.res[1].t = "lit"
    THEN p + Len(re.res[1].str) <= Len(s) /\ s[p + 1] = re.res[1].str[1]
    ELSE TRUE

\* re.exec(s) searching from position from: the leftmost start that matches
ExecFrom(re, groups, s, from) ==
    LET none == [k \in 1..groups |-> NoCapture]
        matched(start, best) ==
            [found |-> TRUE, start |-> start, end |-> best.pos, caps |-> best.caps]
        matchAt(start) == matched(start, Ways(re, s, start, none)[1])
        leftmost(starts) ==
            IF starts = {} THEN NoMatch
            ELSE matchAt(CHOOSE p \in starts : \A q \in starts : p <= q)
    IN  leftmost({p \in from..Len(s) :
                     startsHere(re, s, p) /\ Len(Ways(re, s, p, none)) > 0})

Exec(re, groups, s) == ExecFrom(re, groups, s, 0)

\* regex.test(s)
Test(re, s) == Exec(re, 0, s).found

\* the text of the k-th capture of a match, undefined if the group took no part
Capture(m, s, k) ==
    IF m.caps[k] = NoCapture THEN Undefined
    ELSE SubSeq(s, m.caps[k][1] + 1, m.caps[k][2])

\* the successive matches of a /g pattern, as exec and replace walk them: the
\* next search starts where the last match ended, one further after an empty match
RECURSIVE AllMatches(_, _, _, _)
AllMatches(re, groups, s, from) ==
    LET andLater(m) ==
            IF ~m.found THEN <<>>
            ELSE <<m>> \o AllMatches(re, groups, s,
                                     IF m.end = m.start THEN m.end + 1 ELSE m.end)
    IN  andLater(ExecFrom(re, groups, s, from))

\* s.replace(re, r) for a /g pattern and a replacement text without $
RECURSIVE Splice(_, _, _, _, _)
Splice(s, ms, k, from, r) ==
    IF k > Len(ms) THEN SubSeq(s, from + 1, Len(s))
    ELSE SubSeq(s, from + 1, ms[k].start) \o r \o Splice(s, ms, k + 1, ms[k].end, r)

ReplaceEvery(re, s, r) == Splice(s, AllMatches(re, 0, s, 0), 1, 0, r)

\* s.replace(re, r) for a pattern without /g
ReplaceFirst(re, s, r) ==
    LET replaced(m) ==
            IF m.found THEN SubSeq(s, 1, m.start) \o r \o SubSeq(s, m.end + 1, Len(s))
            ELSE s
    IN  replaced(Exec(re, 0, s))

\* String.prototype.trim
RECURSIVE trimStart(_), trimEnd(_)
trimStart(s) == IF s # <<>> /\ Head(s) \in Space THEN trimStart(Tail(s)) ELSE s
trimEnd(s) == IF s # <<>> /\ s[Len(s)] \in Space THEN trimEnd(SubSeq(s, 1, Len(s) - 1)) ELSE s
trim(s) == trimEnd(trimStart(s))

(***************************************************************************)
(* amd-transformer: the AmdTransformer class.                              *)
(***************************************************************************)
\* null, where a parsed match is expected
Null == [null |-> TRUE, name |-> Undefined, dependencies |-> <<>>, params |-> <<>>,
         body |-> <<>>]

T_define == <<"d", "e", "f", "i", "n", "e">>
T_function == <<"f", "u", "n", "c", "t", "i", "o", "n">>
T_import == <<"i", "m", "p", "o", "r", "t">>
T_export == <<"e", "x", "p", "o", "r", "t">>
T_default == <<"d", "e", "f", "a", "u", "l", "t">>
T_require == <<"r", "e", "q", "u", "i", "r", "e">>
T_from == <<"f", "r", "o", "m">>
T_as == <<"a", "s">>
T_dep == <<"d", "e", "p">>
T_emptyArray == <<"[", "]">>

\* function\s*\(([^)]*)\)\s*\{([\s\S]*)\}\s*\)\s*;?\s*$ with captures k and k + 1
callbackToEnd(k) ==
    <<Lit(T_function), Sp, Lit(<<"(">>), Grp(k, Star(NotChr({")"}))), Lit(<<")">>), Sp,
      Lit(<<"{">>), Grp(k + 1, Star(AnyChr)), Lit(<<"}">>), Sp, Lit(<<")">>), Sp,
      Opt(Lit(<<";">>)), Sp, Eol>>

\* (\[[\s\S]*?\]) as capture k
dependencyArray(k) == Grp(k, Cat(<<Lit(<<"[">>), Lazy(AnyChr), Lit(<<"]">>)>>))

\* /define\s*\(\s*(\[[\s\S]*?\])\s*,\s*function\s*\(([^)]*)\)\s*\{([\s\S]*)\}\s*\)\s*;?\s*$/
pattern1 ==
    Cat(<<Lit(T_define), Sp, Lit(<<"(">>), Sp, dependencyArray(1), Sp, Lit(<<",">>), Sp>>
        \o callbackToEnd(2))

\* /define\s*\(\s*['"`]([^'"`]*?)['"`]\s*,\s*(\[[\s\S]*?\])\s*,\s*function...$/
pattern2 ==
    Cat(<<Lit(T_define), Sp, Lit(<<"(">>), Sp, Chr(Quote), Grp(1, Lazy(NotChr(Quote))),
          Chr(Quote), Sp, Lit(<<",">>), Sp, dependencyArray(2), Sp, Lit(<<",">>), Sp>>
        \o callbackToEnd(3))

\* /define\s*\(\s*function\s*\(([^)]*)\)\s*\{([\s\S]*)\}\s*\)\s*;?\s*$/
pattern3 == Cat(<<Lit(T_define), Sp, Lit(<<"(">>), Sp>> \o callbackToEnd(1))

\* match[k] || ''
orEmpty(v) == IF Truthy(v) THEN v ELSE <<>>

\* parseAmdMatch(match), where groups + 1 is match.length
parseAmdMatch(m, s, groups) ==
    CASE groups = 3 -> [null |-> FALSE, name |-> Undefined, dependencies |-> Capture(m, s, 1),
                        params |-> orEmpty(Capture(m, s, 2)), body |-> Capture(m, s, 3)]
      [] groups = 4 -> [null |-> FALSE, name |-> Capture(m, s, 1), dependencies |-> Capture(m, s, 2),
                        params |-> orEmpty(Capture(m, s, 3)), body |-> Capture(m, s, 4)]
      [] groups = 2 -> [null |-> FALSE, name |-> Undefined, dependencies |-> T_emptyArray,
                        params |-> orEmpty(Capture(m, s, 1)), body |-> Capture(m, s, 2)]

\* a mutant of detectExistingAmd: the named form is tried before the unnamed one
detectExistingAmd_namedFirst(code) ==
    LET m1 == Exec(pattern1, 3, code)
        m2 == Exec(pattern2, 4, code)
        m3 == Exec(pattern3, 2, code)
    IN  IF m2.found THEN parseAmdMatch(m2, code, 4)
        ELSE IF m1.found THEN parseAmdMatch(m1, code, 3)
        ELSE IF m3.found THEN parseAmdMatch(m3, code, 2)
        ELSE Null

\* detectExistingAmd(code): the parsed match of the first pattern that matches
detectExistingAmd(code) ==
    LET m1 == Exec(pattern1, 3, code)
        m2 == Exec(pattern2, 4, code)
        m3 == Exec(pattern3, 2, code)
    IN  IF m1.found THEN parseAmdMatch(m1, code, 3)
        ELSE IF m2.found THEN parseAmdMatch(m2, code, 4)
        ELSE IF m3.found THEN parseAmdMatch(m3, code, 2)
        ELSE Null

\* JSON.parse of the text of an array of strings: the elements from position
\* i on, where a string is expected; ok is FALSE where JSON.parse throws
RECURSIVE jsonElements(_, _, _)
jsonElements(s, i, acc) ==
    LET n == runLength(NotChr({"\"", "\\", "\n", "\t"}), s, i + 1)
        close == i + 1 + n
        j == close + 1 + runLength(Chr(Space), s, close + 1)
    IN  IF ~(i < Len(s) /\ s[i + 1] = "\"" /\ close < Len(s) /\ s[close + 1] = "\"")
        THEN [ok |-> FALSE, value |-> <<>>]
        ELSE LET element == SubSeq(s, i + 2, close)
             IN  IF j < Len(s) /\ s[j + 1] = ","
                 THEN jsonElements(s, j + 1 + runLength(Chr(Space), s, j + 1),
                                   Append(acc, element))
                 ELSE IF j < Len(s) /\ s[j + 1] = "]"
                          /\ j + 1 + runLength(Chr(Space), s, j + 1) = Len(s)
                 THEN [ok |-> TRUE, value |-> Append(acc, element)]
                 ELSE [ok |-> FALSE, value |-> <<>>]

JSONparse(s) ==
    LET i == runLength(Chr(Space), s, 0)
        j == i + 1 + runLength(Chr(Space), s, i + 1)
    IN  IF ~(i < Len(s) /\ s[i + 1] = "[") THEN [ok |-> FALSE, value |-> <<>>]
        ELSE IF j < Len(s) /\ s[j + 1] = "]"
        THEN [ok |-> j + 1 + runLength(Chr(Space), s, j + 1) = Len(s), value |-> <<>>]
        ELSE jsonElements(s, j, <<>>)

\* JSON.stringify of one string
RECURSIVE quoteJSON(_)
quoteJSON(s) ==
    IF s = <<>> THEN <<>>
    ELSE (CASE Head(s) = "\"" -> <<"\\", "\"">>
            [] Head(s) = "\\" -> <<"\\", "\\">>
            [] Head(s) = "\n" -> <<"\\", "n">>
            [] Head(s) = "\t" -> <<"\\", "t">>
            [] OTHER -> <<Head(s)>>) \o quoteJSON(Tail(s))

\* JSON.stringify of an array of strings
JSONstringify(array) ==
    <<"[">> \o join([k \in 1..Len(array) |-> <<"\"">> \o quoteJSON(array[k]) \o <<"\"">>], <<",">>)
         \o <<"]">>

\* the elements of an array without the later copies of an earlier element
RECURSIVE distinct(_)
distinct(array) ==
    IF array = <<>> THEN <<>>
    ELSE LET rest == distinct(SubSeq(array, 1, Len(array) - 1))
             last == array[Len(array)]
         IN  IF \E k \in 1..Len(rest) : rest[k] = last THEN rest ELSE Append(rest, last)

\* the strings of dependenciesStr.match(/['"`]([^'"`]+)['"`]/g), without their
\* first and last character
quotedParts(s) ==
    LET ms == AllMatches(Cat(<<Chr(Quote), Plus(NotChr(Quote)), Chr(Quote)>>), 0, s, 0)
    IN  [k \in 1..Len(ms) |-> SubSeq(s, ms[k].start + 2, ms[k].end - 1)]

\* dependenciesStr.replace(/'/g, '"').replace(/,\s*]/g, ']').replace(/\s+/g, ' ')
cleanDepsStr(s) ==
    ReplaceEvery(Sp1,
               ReplaceEvery(Cat(<<Lit(<<",">>), Sp, Lit(<<"]">>)>>), replaceAll(s, "'", "\""), <<"]">>),
               <<" ">>)

\* a mutant of parseDependencies: no dependency where JSON.parse throws
parseDependencies_noFallback(dependenciesStr) ==
    IF dependenciesStr = <<>> THEN <<>>
    ELSE LET parsed == JSONparse(cleanDepsStr(dependenciesStr))
         IN  IF parsed.ok THEN parsed.value ELSE <<>>

\* parseDependencies whose fallback keeps the quotes of the matches
parseDependencies_quoted(dependenciesStr) ==
    IF dependenciesStr = <<>> THEN <<>>
    ELSE LET parsed == JSONparse(cleanDepsStr(dependenciesStr))
             parts == quotedParts(dependenciesStr)
         IN  IF parsed.ok THEN parsed.value
             ELSE [k \in 1..Len(parts) |-> <<"'">> \o parts[k] \o <<"'">>]

\* parseDependencies(dependenciesStr): JSON.parse of the cleaned text, and
\* the quoted parts of the text where that throws
parseDependencies(dependenciesStr) ==
    IF dependenciesStr = <<>> THEN <<>>
    ELSE LET parsed == JSONparse(cleanDepsStr(dependenciesStr))
         IN  IF parsed.ok THEN parsed.value ELSE quotedParts(dependenciesStr)

\* whether parseDependencies(dependenciesStr) calls logger.warn: JSON.parse
\* threw and the text has no quoted part
warnsCouldNotParse(dependenciesStr) ==
    /\ dependenciesStr # <<>>
    /\ ~JSONparse(cleanDepsStr(dependenciesStr)).ok
    /\ quotedParts(dependenciesStr) = <<>>

DefaultOptions == [indentSize |-> 4, addSourceComment |-> FALSE, indentBody |-> TRUE]

\* ' '.repeat(n)
spaces(n) == [k \in 1..n |-> " "]

\* formatAmdModule(moduleId, dependencies, params, body, options)
formatAmdModule(moduleId, dependencies, params, body, options) ==
    LET indent == spaces(options.indentSize)
        lines == split(body, "\n")
        formattedBody ==
            IF options.indentBody
            THEN join([k \in 1..Len(lines) |->
                          IF lines[k] # <<>> THEN indent \o lines[k] ELSE lines[k]],
                      <<"\n">>)
            ELSE body
    IN  T_define \o <<"(", "\"">> \o moduleId \o <<"\"", ",", " ">> \o JSONstringify(dependencies)
            \o <<",", " ", "f", "u", "n", "c", "t", "i", "o", "n", "(">> \o params \o <<")", " ", "{", "\n">>
            \o (IF options.addSourceComment
                THEN indent \o <<"/", "/", " ", "T", "r", "a", "n", "s", "f", "o", "r", "m", "e", "d", " ", "f", "r", "o", "m", " ", "E", "S", "6", " ", "m", "o", "d", "u", "l", "e", "\n">> ELSE <<>>)
            \o formattedBody \o <<"\n", "}", ")", ";">>

\* transformExistingAmd(amdMatch, moduleId, options)
transformExistingAmd(amdMatch, moduleId, options) ==
    formatAmdModule(moduleId, parseDependencies(amdMatch.dependencies),
                    orEmpty(amdMatch.params), trim(amdMatch.body), options)

\* (?:{[^}]*}|\*\s+as\s+\w+|\w+)
importClause ==
    Alt(<<Cat(<<Lit(<<"{">>), Star(NotChr({"}"})), Lit(<<"}">>)>>),
          Cat(<<Lit(<<"*">>), Sp1, Lit(T_as), Sp1, Plus(Chr(Word))>>),
          Plus(Chr(Word))>>)

\* /import\s+(?:{[^}]*}|\*\s+as\s+\w+|\w+)\s+from\s+['"`]([^'"`]+)['"`]/g
importRegex ==
    Cat(<<Lit(T_import), Sp1, importClause, Sp1, Lit(T_from), Sp1,
          Chr(Quote), Grp(1, Plus(NotChr(Quote))), Chr(Quote)>>)

\* /require\s*\(\s*['"`]([^'"`]+)['"`]\s*\)/g
requireRegex ==
    Cat(<<Lit(T_require), Sp, Lit(<<"(">>), Sp, Chr(Quote), Grp(1, Plus(NotChr(Quote))),
          Chr(Quote), Sp, Lit(<<")">>)>>)

\* the first captures of the successive matches of a /g pattern
captured(re, code) ==
    LET ms == AllMatches(re, 1, code, 0)
    IN  [k \in 1..Len(ms) |-> Capture(ms[k], code, 1)]

\* extractDependencies(code): the specifiers of the imports, then those of the
\* require calls, each pushed unless the array already includes it
extractDependencies(code) ==
    distinct(captured(importRegex, code) \o captured(requireRegex, code))

\* Number.prototype.toString for an array index
RECURSIVE toString(_)
toString(n) ==
    IF n < 10 THEN <<<<"0", "1", "2", "3", "4", "5", "6", "7", "8", "9">>[n + 1]>>
    ELSE toString(n \div 10) \o toString(n % 10)

\* `dep${index}`
paramName(index) == T_dep \o toString(index)

\* new RegExp(`require\\s*\\(\\s*['"\`]${this.escapeRegex(dep)}['"\`]\\s*\\)`, 'g'):
\* escapeRegex puts a backslash before every special character of dep, so
\* that part of the pattern matches the characters of dep and nothing else
requirePattern(dep) ==
    Cat(<<Lit(T_require), Sp, Lit(<<"(">>), Sp, Chr(Quote), Lit(dep), Chr(Quote), Sp,
          Lit(<<")">>)>>)

\* a mutant of replaceRequires: the parameters are counted from 1
RECURSIVE replaceRequires_fromOne(_, _, _)
replaceRequires_fromOne(code, dependencies, k) ==
    IF k > Len(dependencies) THEN code
    ELSE replaceRequires_fromOne(
             ReplaceEvery(requirePattern(dependencies[k]), code, paramName(k)),
             dependencies, k + 1)

\* dependencies.forEach: the require calls of the k-th and later dependencies
\* become their parameter names
RECURSIVE replaceRequires(_, _, _)
replaceRequires(code, dependencies, k) ==
    IF k > Len(dependencies) THEN code
    ELSE replaceRequires(ReplaceEvery(requirePattern(dependencies[k]), code, paramName(k - 1)),
                         dependencies, k + 1)

\* transformEsModuleCode(code, dependencies)
transformEsModuleCode(code, dependencies) ==
    LET noImports ==
            ReplaceEvery(Cat(<<Lit(T_import), Sp1, importClause, Sp1, Lit(T_from), Sp1,
                             Chr(Quote), Plus(NotChr(Quote)), Chr(Quote),
                             Opt(Lit(<<";">>)), Sp>>), code, <<>>)
        noExports ==
            ReplaceEvery(Cat(<<Lit(T_export), Sp1, Opt(Cat(<<Lit(T_default), Sp1>>))>>),
                       noImports, <<>>)
        noRequires == replaceRequires(noExports, dependencies, 1)
        noOpening ==
            ReplaceFirst(Cat(<<Bol, Sp, Lit(<<"(">>), Lit(T_function), Sp, Lit(<<"(">>),
                               Star(NotChr({")"})), Lit(<<")">>), Sp, Lit(<<"{">>)>>),
                         noRequires, <<>>)
        noClosing ==
            ReplaceFirst(Cat(<<Lit(<<"}">>), Sp, Lit(<<"(">>), Star(NotChr({")"})), Lit(<<")">>),
                               Sp, Lit(<<")">>), Lit(<<";">>), Sp, Eol>>),
                         noOpening, <<>>)
    IN  trim(noClosing)

\* generateParameters(dependencies)
generateParameters(dependencies) ==
    join([k \in 1..Len(dependencies) |-> paramName(k - 1)], <<",", " ">>)

\* transformEsModuleToAmd(code, moduleId, options)
transformEsModuleToAmd(code, moduleId, options) ==
    LET dependencies == extractDependencies(code)
    IN  formatAmdModule(moduleId, dependencies, generateParameters(dependencies),
                        transformEsModuleCode(code, dependencies), options)

\* transformToAmd(code, moduleId, inputFilePath, options), where originalCode
\* is what readOriginalSource(inputFilePath) returned
transformToAmd(code, moduleId, originalCode, options) ==
    LET existingAmdMatch == detectExistingAmd(originalCode)
    IN  IF ~existingAmdMatch.null
        THEN transformExistingAmd(existingAmdMatch, moduleId, options)
        ELSE transformEsModuleToAmd(code, moduleId, options)

(***************************************************************************)
(* The addModuleToDefine plugin: the module name as first argument of      *)
(* define, and the return of the default export.                           *)
(***************************************************************************)
T_amd_src == <<"/", "a", "m", "d", "/", "s", "r", "c", "/">>
T_exports == <<"e", "x", "p", "o", "r", "t", "s">>
T_exports_default == <<"e", "x", "p", "o", "r", "t", "s", ".", "d", "e", "f", "a", "u", "l", "t">>
T_return == <<"r", "e", "t", "u", "r", "n">>

\* String.prototype.indexOf for a string: the 0-based index of its first
\* occurrence, or -1
strIndexOf(s, sub) ==
    LET places == {p \in 0..(Len(s) - Len(sub)) : SubSeq(s, p + 1, p + Len(sub)) = sub}
    IN  IF places = {} THEN -1 ELSE CHOOSE p \in places : \A q \in places : p <= q

\* getModuleNameFromFileName(filePath, componentMap), run in directory cwd
getModuleNameFromFileName(cwd, filePath, componentMap) ==
    LET rel == normalizePath(relative(cwd, filePath))
        amdIdx == strIndexOf(rel, T_amd_src)
        componentPath == slice(rel, 0, amdIdx)
        fileName == slice(rel, amdIdx + Len(T_amd_src), Len(rel) - 3)
        componentName == objGet(componentMap, componentPath)
    IN  IF amdIdx = -1 THEN Throw("NotAmdSrc", filePath)
        ELSE IF ~Truthy(componentName) THEN Throw("UnableToFind", componentPath)
        ELSE Return(componentName \o <<"/">> \o fileName)

\* code.replace(/define\s*\(([^)]*)\)/, (match, args) => ...): the first
\* define(...) up to its first closing parenthesis is rewritten with the
\* module name in front, an existing quoted name and its comma removed
nameDefine(code, moduleName) ==
    LET m == Exec(Cat(<<Lit(T_define), Sp, Lit(<<"(">>), Grp(1, Star(NotChr({")"}))),
                        Lit(<<")">>)>>), 1, code)
        args == trim(Capture(m, code, 1))
        idx == indexOf(args, ",")
        rest == IF (startsWith(args, <<"'">>) \/ startsWith(args, <<"\"">>)) /\ idx # -1
                THEN trim(substring(args, idx + 1))
                ELSE args
    IN  IF ~m.found THEN [replaced |-> FALSE, code |-> code]
        ELSE [replaced |-> TRUE,
              code |-> SubSeq(code, 1, m.start) \o T_define \o <<" ", "(", "'">> \o moduleName
                           \o <<"'", ",", " ">> \o rest \o SubSeq(code, m.end + 1, Len(code))]

\* /Object\.defineProperty\s*\(\s*exports\s*,\s*['"]default['"]/.test(newCode)
\*     || /exports\.default\s*=/.test(newCode)
hasDefaultExport(newCode) ==
    \/ Test(Cat(<<Lit(<<"O", "b", "j", "e", "c", "t", ".", "d", "e", "f", "i", "n", "e", "P", "r", "o", "p", "e", "r", "t", "y">>), Sp, Lit(<<"(">>), Sp, Lit(T_exports), Sp,
                  Lit(<<",">>), Sp, Chr({"'", "\""}), Lit(T_default), Chr({"'", "\""})>>),
            newCode)
    \/ Test(Cat(<<Lit(T_exports_default), Sp, Lit(<<"=">>)>>), newCode)

\* newCode.replace(/(define \([\s\S]*?function\s*\([^)]*\)\s*\{)([\s\S]*?)(\}\s*\)\s*;?)/,
\*                 (m, start, body, end) => ...)
returnDefault(newCode) ==
    LET m == Exec(Cat(<<Grp(1, Cat(<<Lit(<<"d", "e", "f", "i", "n", "e", " ", "(">>), Lazy(AnyChr), Lit(T_function), Sp,
                                     Lit(<<"(">>), Star(NotChr({")"})), Lit(<<")">>), Sp,
                                     Lit(<<"{">>)>>)),
                        Grp(2, Lazy(AnyChr)),
                        Grp(3, Cat(<<Lit(<<"}">>), Sp, Lit(<<")">>), Sp, Opt(Lit(<<";">>))>>))>>),
                  3, newCode)
    IN  IF ~m.found
           \/ Test(Cat(<<Lit(T_return), Sp1, Lit(T_exports_default)>>), Capture(m, newCode, 2))
        THEN newCode
        ELSE SubSeq(newCode, 1, m.start) \o Capture(m, newCode, 1)
                 \o Capture(m, newCode, 2) \o <<"\n", " ", " ", " ", " ", "r", "e", "t", "u", "r", "n", " ", "e", "x", "p", "o", "r", "t", "s", ".", "d", "e", "f", "a", "u", "l", "t", ";">>
                 \o Capture(m, newCode, 3) \o SubSeq(newCode, m.end + 1, Len(newCode))

NoChange == [null |-> TRUE, code |-> <<>>]

\* transform(code, id) of the plugin made by addModuleToDefine({componentMap}),
\* run in directory cwd: null where the code is left as it is
transform(code, id, cwd, componentMap) ==
    LET moduleName == getModuleNameFromFileName(cwd, id, componentMap)
        named == nameDefine(code, moduleName.value)
        newCode == IF hasDefaultExport(named.code) THEN returnDefault(named.code)
                   ELSE named.code
    IN  IF strIndexOf(id, T_amd_src) = -1 \/ ~endsWith(id, S_js) THEN NoChange
        ELSE IF ~moduleName.ok THEN NoChange
        ELSE IF named.replaced /\ newCode # code THEN [null |-> FALSE, code |-> newCode]
        ELSE NoChange

(***************************************************************************)
(* The files the transformer is run on.  A file is described by what its   *)
(* author wrote: a loader module (its dependency array, how the array is   *)
(* quoted, the parameter text and the body text of its callback) or an ES  *)
(* module (its statements), and text is the content of the file.           *)
(***************************************************************************)
MaxDeps == 2         \* specifiers in a written dependency array
MaxStatements == 2   \* statements in a written ES module
MaxPasses == 1       \* times an output is written back and transformed again

Specifiers == {<<"a">>, <<"b", "/", "c">>}

ModuleIds == {<<"m", "o", "d", "_", "x", "/", "y">>}

OptionSets == {DefaultOptions}

\* the sequences of at most n elements of S
RECURSIVE SeqsUpTo(_, _)
SeqsUpTo(S, n) ==
    IF n = 0 THEN {<<>>}
    ELSE LET shorter == SeqsUpTo(S, n - 1)
         IN  shorter \cup {Append(q, x) : q \in shorter, x \in S}

OneLineBody == <<" ", "r", "e", "t", "u", "r", "n", " ", "1", ";", " ">>
ManyLineBody == <<"\n", " ", " ", "x", "(", ")", ";", "\n", " ", " ", "r", "e", "t", "u", "r", "n", " ", Backtick, "p", "\n", " ", " ", "q", Backtick, ";", "\n">>
InnerModule == <<" ", "d", "e", "f", "i", "n", "e", "(", "[", "\"", "b", "/", "c", "\"", "]", ",", " ", "f", "u", "n", "c", "t", "i", "o", "n", "(", "b", ")", " ", "{", " ", "r", "e", "t", "u", "r", "n", " ", "b", ";", " ", "}", ")", ";", " ">>

\* define([deps], function(params) {body});
UnnamedModules ==
    {[NoText EXCEPT !.kind = "unnamed", !.deps = d, !.quote = q, !.comma = c,
                    !.params = <<"a", ",", " ", "b">>, !.body = OneLineBody] :
        d \in SeqsUpTo(Specifiers, MaxDeps) \ {<<>>}, q \in Quote, c \in BOOLEAN} \cup
    {[NoText EXCEPT !.kind = "unnamed", !.deps = d, !.params = p, !.body = b] :
        d \in {<<>>, <<<<"a">>>>}, p \in {<<>>, <<"a">>}, b \in {<<>>, ManyLineBody}}

\* define("name", [deps], function(params) {body});
NamedModules ==
    {[NoText EXCEPT !.kind = "named", !.name = <<"o", "l", "d">>, !.deps = d, !.quote = "'",
                    !.params = <<"a">>, !.body = OneLineBody] :
        d \in SeqsUpTo(Specifiers, MaxDeps)} \cup
    {[NoText EXCEPT !.kind = "named", !.name = <<"o", "l", "d">>, !.deps = <<<<"a">>>>,
                    !.params = <<"a">>, !.body = b] : b \in {ManyLineBody, InnerModule}}

\* define(function(params) {body});
BareModules ==
    {[NoText EXCEPT !.kind = "bare", !.params = <<"r", "e", "q", "u", "i", "r", "e">>, !.body = b] :
        b \in {OneLineBody, ManyLineBody, <<" ", "v", "a", "r", " ", "a", " ", "=", " ", "r", "e", "q", "u", "i", "r", "e", "(", "\"", "a", "\"", ")", ";", " ", "r", "e", "t", "u", "r", "n", " ", "a", ";", " ">>}}

\* the statements of an ES module: [form, specifier]
Statements ==
    {[form |-> "require", specifier |-> s] : s \in Specifiers} \cup
    {[form |-> "import", specifier |-> <<"a">>], [form |-> "export", specifier |-> <<>>]}

EsModules ==
    {[NoText EXCEPT !.kind = "es", !.statements = st] :
        st \in SeqsUpTo(Statements, MaxStatements)}

\* (function() {body}()); and (function() {body})(); : a file that is one
\* immediately-invoked function, closed in either of the two usual ways
WrappedModules ==
    {[NoText EXCEPT !.kind = "wrapped", !.body = b, !.name = closing] :
        b \in {OneLineBody, <<" ", "v", "a", "r", " ", "v", " ", "=", " ", "r", "e", "q", "u", "i", "r", "e", "(", "'", "a", "'", ")", ";", " ">>}, closing \in {<<"}", "(", ")", ")", ";">>, <<"}", ")", "(", ")", ";">>}}

Written == UnnamedModules \cup NamedModules \cup BareModules \cup EsModules \cup WrappedModules

\* the text of a dependency array
arrayText(deps, quote, comma) ==
    <<"[">> \o join([k \in 1..Len(deps) |-> <<quote>> \o deps[k] \o <<quote>>], <<",", " ">>)
         \o (IF comma THEN <<",">> ELSE <<>>) \o <<"]">>

\* the text of a statement of an ES module
statementText(st) ==
    CASE st.form = "import" -> <<"i", "m", "p", "o", "r", "t", " ", "F", "o", "o", " ", "f", "r", "o", "m", " ", "\"">> \o st.specifier \o <<"\"", ";">>
      [] st.form = "require" -> <<"v", "a", "r", " ", "v", " ", "=", " ", "r", "e", "q", "u", "i", "r", "e", "(", "'">> \o st.specifier \o <<"'", ")", ";">>
      [] st.form = "export" -> <<"e", "x", "p", "o", "r", "t", " ", "d", "e", "f", "a", "u", "l", "t", " ", "F", "o", "o", ";">>

\* the content of the file
text(w) ==
    CASE w.kind = "unnamed" ->
             <<"d", "e", "f", "i", "n", "e", "(">> \o arrayText(w.deps, w.quote, w.comma) \o <<",", " ", "f", "u", "n", "c", "t", "i", "o", "n", "(">>
                 \o w.params \o <<")", " ", "{">> \o w.body \o <<"}", ")", ";">>
      [] w.kind = "named" ->
             <<"d", "e", "f", "i", "n", "e", "(", "\"">> \o w.name \o <<"\"", ",", " ">> \o arrayText(w.deps, w.quote, w.comma)
                 \o <<",", " ", "f", "u", "n", "c", "t", "i", "o", "n", "(">> \o w.params \o <<")", " ", "{">> \o w.body \o <<"}", ")", ";">>
      [] w.kind = "bare" ->
             <<"d", "e", "f", "i", "n", "e", "(", "f", "u", "n", "c", "t", "i", "o", "n", "(">> \o w.params \o <<")", " ", "{">> \o w.body \o <<"}", ")", ";">>
      [] w.kind = "es" ->
             join([k \in 1..Len(w.statements) |-> statementText(w.statements[k])], <<"\n">>)
      [] w.kind = "wrapped" -> <<"(", "f", "u", "n", "c", "t", "i", "o", "n", "(", ")", " ", "{">> \o w.body \o w.name
      [] OTHER -> <<>>

(***************************************************************************)
(* The transformer run on one file, and run again on what it wrote.        *)
(***************************************************************************)
InitTransformer ==
    /\ moodleRoot \in Roots
    /\ configFile = NoFile
    /\ componentCache = NullCache
    /\ subsystems = <<>>
    /\ pluginTypes = <<>>
    /\ lastCall = NoCall
    /\ remembered = NotRemembered
    /\ siblings = {}
    /\ stats = NoStats
    /\ pending = <<>>
    /\ emitted = NotEmitted
    /\ run = NoRun
    /\ written \in Written
    /\ source = text(written)
    /\ passes = 0

Called(op, arg, result) ==
    [op |-> op, arg |-> arg, result |-> result, read |-> FALSE, warned |-> FALSE]

\* detectExistingAmd(code) on the content of the file
DetectExistingAmd ==
    /\ Idle
    /\ lastCall' = Called("detectExistingAmd", source, detectExistingAmd(source))
    /\ UNCHANGED <<moodleRoot, configFile, componentCache, subsystems, pluginTypes,
                   remembered, siblings, stats, pending, emitted, run, written, source,
                   passes>>

\* extractDependencies(code) on the content of the file
ExtractDependencies ==
    /\ Idle
    /\ lastCall' = Called("extractDependencies", source, extractDependencies(source))
    /\ UNCHANGED <<moodleRoot, configFile, componentCache, subsystems, pluginTypes,
                   remembered, siblings, stats, pending, emitted, run, written, source,
                   passes>>

\* transformToAmd(code, moduleId, inputFilePath, options): the chunk holds
\* the text of the file, which readOriginalSource reads as well
TransformToAmd(moduleId, options) ==
    /\ Idle
    /\ lastCall' = Called("transformToAmd", [moduleId |-> moduleId, options |-> options],
                          transformToAmd(source, moduleId, source, options))
    /\ UNCHANGED <<moodleRoot, configFile, componentCache, subsystems, pluginTypes,
                   remembered, siblings, stats, pending, emitted, run, written, source,
                   passes>>

\* the output is written over the file, which is then built again
BuildAgain ==
    /\ lastCall.op = "transformToAmd"
    /\ passes < MaxPasses
    /\ source' = lastCall.result
    /\ passes' = passes + 1
    /\ lastCall' = NoCall
    /\ UNCHANGED <<moodleRoot, configFile, componentCache, subsystems, pluginTypes,
                   remembered, siblings, stats, pending, emitted, run, written>>

NextTransformer ==
    \/ DetectExistingAmd
    \/ ExtractDependencies
    \/ \E moduleId \in ModuleIds, options \in OptionSets : TransformToAmd(moduleId, options)
    \/ BuildAgain
    \/ TakeResult

SpecTransformer == InitTransformer /\ [][NextTransformer]_vars

(***************************************************************************)
(* The addModuleToDefine plugin run on one file, and run again on what it  *)
(* returned.                                                               *)
(***************************************************************************)
DefaultAssigned == <<" ", "e", "x", "p", "o", "r", "t", "s", ".", "d", "e", "f", "a", "u", "l", "t", " ", "=", " ", "a", ";", " ">>
DefaultDefined == <<" ", "O", "b", "j", "e", "c", "t", ".", "d", "e", "f", "i", "n", "e", "P", "r", "o", "p", "e", "r", "t", "y", "(", "e", "x", "p", "o", "r", "t", "s", ",", " ", "\"", "d", "e", "f", "a", "u", "l", "t", "\"", ",", " ", "{", "v", "a", "l", "u", "e", ":", " ", "1", "}", ")", ";", " ">>
DefaultAfterCallback == <<" ", "f", "(", "f", "u", "n", "c", "t", "i", "o", "n", "(", ")", " ", "{", " ", "x", ";", " ", "}", ")", ";", " ", "e", "x", "p", "o", "r", "t", "s", ".", "d", "e", "f", "a", "u", "l", "t", " ", "=", " ", "a", ";", " ">>
DefaultAfterCallbacks == <<" ", "f", "(", "f", "u", "n", "c", "t", "i", "o", "n", "(", ")", " ", "{", " ", "x", ";", " ", "}", ")", ";", " ", "g", "(", "f", "u", "n", "c", "t", "i", "o", "n", "(", ")", " ", "{", " ", "y", ";", " ", "}", ")", ";", " ", "e", "x", "p", "o", "r", "t", "s", ".", "d", "e", "f", "a", "u", "l", "t", " ", "=", " ", "a", ";", " ">>
DefaultReturned == <<" ", "e", "x", "p", "o", "r", "t", "s", ".", "d", "e", "f", "a", "u", "l", "t", " ", "=", " ", "1", ";", " ", "r", "e", "t", "u", "r", "n", " ", "e", "x", "p", "o", "r", "t", "s", ".", "d", "e", "f", "a", "u", "l", "t", ";", " ">>

PluginBodies ==
    {DefaultAssigned, DefaultDefined, DefaultAfterCallback, DefaultAfterCallbacks,
     DefaultReturned, OneLineBody}

PluginModules ==
    {[NoText EXCEPT !.kind = "unnamed", !.deps = d, !.quote = q, !.params = <<"a">>,
                    !.body = b] :
        d \in SeqsUpTo({<<"a">>}, MaxDeps - 1), q \in {"'", "\""}, b \in PluginBodies} \cup
    {[NoText EXCEPT !.kind = k, !.name = <<"o", "l", "d">>, !.body = b] :
        k \in {"named", "bare"}, b \in PluginBodies}

\* options.componentMap
ComponentMap == << <<S_mod_forum, <<"m", "o", "d", "_", "f", "o", "r", "u", "m">>>> >>

\* the ids rollup calls transform with
PluginIds ==
    {pathJoin(S_root, under(<<S_mod_forum, S_amd, S_src, S_x_js>>)),
     pathJoin(S_root, under(<<S_mod_quiz, S_amd, S_src, S_x_js>>)),
     pathJoin(S_root, under(<<S_mod_forum, S_x_js>>))}

InitPlugin ==
    /\ moodleRoot \in Roots
    /\ configFile = NoFile
    /\ componentCache = NullCache
    /\ subsystems = <<>>
    /\ pluginTypes = <<>>
    /\ lastCall = NoCall
    /\ remembered = NotRemembered
    /\ siblings = {}
    /\ stats = NoStats
    /\ pending = <<>>
    /\ emitted = NotEmitted
    /\ run = NoRun
    /\ written \in PluginModules
    /\ source = text(written)
    /\ passes = 0

\* transform(code, id), called by rollup in the directory moodleRoot
Transform(id) ==
    /\ Idle
    /\ lastCall' = Called("transform", id, transform(source, id, moodleRoot, ComponentMap))
    /\ UNCHANGED <<moodleRoot, configFile, componentCache, subsystems, pluginTypes,
                   remembered, siblings, stats, pending, emitted, run, written, source,
                   passes>>

\* the code the plugin returned is written over the file, which is then
\* built again
TransformAgain ==
    /\ lastCall.op = "transform"
    /\ ~lastCall.result.null
    /\ passes < MaxPasses
    /\ source' = lastCall.result.code
    /\ passes' = passes + 1
    /\ lastCall' = NoCall
    /\ UNCHANGED <<moodleRoot, configFile, componentCache, subsystems, pluginTypes,
                   remembered, siblings, stats, pending, emitted, run, written>>

NextPlugin ==
    \/ \E id \in PluginIds : Transform(id)
    \/ TransformAgain
    \/ TakeResult

SpecPlugin == InitPlugin /\ [][NextPlugin]_vars

(***************************************************************************)
(* file-processor.js: processMultipleFiles.  A run is the call in flight:  *)
(* its arguments, the index of the batch being awaited, the results        *)
(* pushed so far, and one slot per file of the batch, holding the result   *)
(* object of its processSingleFile call (done once that call has           *)
(* returned).                                                              *)
(***************************************************************************)
MaxBatchFiles == 3     \* files in the list given to processMultipleFiles
MaxConcurrency == 2    \* options.concurrency

JsNull == <<"null">>
S_build_failed == "RollupBuildFailed"

\* a mutant of chunkArray: every slice takes one element more
chunkArray_wider(array, size) ==
    [i \in 1..((Len(array) + size - 1) \div size) |->
        SubSeq(array, (i - 1) * size + 1,
               IF i * size + 1 < Len(array) THEN i * size + 1 ELSE Len(array))]

\* chunkArray(array, size)
chunkArray(array, size) ==
    [i \in 1..((Len(array) + size - 1) \div size) |->
        SubSeq(array, (i - 1) * size + 1,
               IF i * size < Len(array) THEN i * size ELSE Len(array))]

\* the result object processSingleFile starts with
newResult(filePath) ==
    [done |-> FALSE, success |-> FALSE, filePath |-> filePath, moduleName |-> JsNull,
     error |-> "none"]

\* a mutant of counted: processed is counted for a success only
counted_succeededOnly(st, field) ==
    [st EXCEPT ![field] = @ + 1, !.processed = IF field = "succeeded" THEN @ + 1 ELSE @]

\* this.stats[field]++ followed by this.stats.processed++
counted(st, field) == [st EXCEPT ![field] = @ + 1, !.processed = @ + 1]

\* a mutant of caught: the error is dropped
caught_swallowed(result, error) == [result EXCEPT !.done = TRUE]

\* the catch block of processSingleFile and its return
caught(result, error) == [result EXCEPT !.done = TRUE, !.error = error]

\* the end of the try block of processSingleFile and its return
succeeded(result) == [result EXCEPT !.done = TRUE, !.success = TRUE]

\* batch.map(filePath => this.processSingleFile(filePath, options)): every
\* call runs up to its await of buildFile, in the order of the batch; a call
\* whose name resolution throws has returned its result already
processSingleFile(s, st, root, file, batch) ==
    LET call[k \in 1..Len(batch)] ==
            getModuleNameFromPath(IF k = 1 THEN s ELSE call[k - 1].self, root, file,
                                  batch[k])
        returned(r) ==
            LET counts[k \in 0..Len(batch)] ==
                    IF k = 0 THEN st
                    ELSE IF r[k].result.ok THEN counts[k - 1]
                    ELSE counted(counts[k - 1], "failed")
            IN  [self |-> IF batch = <<>> THEN s ELSE r[Len(batch)].self,
                 stats |-> counts[Len(batch)],
                 slots |-> [k \in 1..Len(batch) |->
                               IF r[k].result.ok
                               THEN [newResult(batch[k]) EXCEPT
                                         !.moduleName = r[k].result.value]
                               ELSE caught(newResult(batch[k]), r[k].result.error)]]
    IN  returned(call)

BatchRelativePaths ==
    {under(<<S_mod_forum, S_amd, S_src, S_x_js>>),
     under(<<S_mod_forum, S_src, S_x_js>>)}

BatchFilePaths(root) == {pathJoin(root, rel) : rel \in BatchRelativePaths}

\* a mutant of resetStats: the counts of the earlier run are kept
resetStats_kept(st) == st

\* resetStats()
resetStats(st) == NoStats

InitBatch == Init /\ configFile \in BuildConfigs

\* processMultipleFiles(filePaths, {concurrency}) up to its first await
ProcessMultipleFiles(filePaths, concurrency) ==
    LET batches == chunkArray(filePaths, concurrency)
        b == processSingleFile(self, resetStats(stats), moodleRoot, configFile, batches[1])
    IN  /\ Idle
        /\ ~run.active
        /\ IF filePaths = <<>>
           THEN /\ stats' = resetStats(stats)
                /\ run' = NoRun
                /\ lastCall' = [Called("processMultipleFiles",
                                       [files |-> filePaths, concurrency |-> concurrency],
                                       <<>>) EXCEPT !.warned = TRUE]
                /\ UNCHANGED <<componentCache, subsystems, pluginTypes>>
           ELSE /\ Becomes(b.self)
                /\ stats' = b.stats
                /\ run' = [active |-> TRUE, files |-> filePaths,
                           concurrency |-> concurrency, batch |-> 0, results |-> <<>>,
                           slots |-> b.slots]
                /\ lastCall' = lastCall
        /\ UNCHANGED <<moodleRoot, configFile, remembered, siblings, pending, emitted,
                       written, source, passes>>

\* the build of the k-th file of the batch resolves: the rest of the try
\* block of its processSingleFile call runs
BatchBuildSucceeds(k) ==
    /\ run.active
    /\ k \in 1..Len(run.slots)
    /\ ~run.slots[k].done
    /\ run' = [run EXCEPT !.slots[k] = succeeded(@)]
    /\ stats' = counted(stats, "succeeded")
    /\ emitted' = [set |-> TRUE, file |-> run.slots[k].filePath,
                   id |-> amdIdOf(run.slots[k].moduleName)]
    /\ UNCHANGED <<moodleRoot, configFile, componentCache, subsystems, pluginTypes,
                   lastCall, remembered, siblings, pending, written, source, passes>>

\* the build of the k-th file of the batch rejects: buildFile rethrows and
\* the catch block of its processSingleFile call runs
BatchBuildFails(k) ==
    /\ run.active
    /\ k \in 1..Len(run.slots)
    /\ ~run.slots[k].done
    /\ run' = [run EXCEPT !.slots[k] = caught(@, S_build_failed)]
    /\ stats' = counted(stats, "failed")
    /\ UNCHANGED <<moodleRoot, configFile, componentCache, subsystems, pluginTypes,
                   lastCall, remembered, siblings, pending, emitted, written, source,
                   passes>>

\* Promise.all of the batch resolves: its results are pushed, and the next
\* batch is started or the results are returned
BatchDone ==
    LET batches == chunkArray(run.files, run.concurrency)
        results == run.results \o run.slots
        b == processSingleFile(self, stats, moodleRoot, configFile, batches[run.batch + 2])
    IN  /\ run.active
        /\ \A k \in 1..Len(run.slots) : run.slots[k].done
        /\ IF run.batch + 1 < Len(batches)
           THEN /\ Becomes(b.self)
                /\ stats' = b.stats
                /\ run' = [run EXCEPT !.batch = @ + 1, !.results = results,
                                      !.slots = b.slots]
                /\ lastCall' = lastCall
           ELSE /\ run' = NoRun
                /\ lastCall' = Called("processMultipleFiles",
                                      [files |-> run.files,
                                       concurrency |-> run.concurrency], results)
                /\ UNCHANGED <<componentCache, subsystems, pluginTypes, stats>>
        /\ UNCHANGED <<moodleRoot, configFile, remembered, siblings, pending, emitted,
                       written, source, passes>>

NextBatch ==
    \/ \E filePaths \in SeqsUpTo(BatchFilePaths(moodleRoot), MaxBatchFiles),
          concurrency \in 1..MaxConcurrency :
           ProcessMultipleFiles(filePaths, concurrency)
    \/ \E k \in 1..MaxConcurrency : BatchBuildSucceeds(k)
    \/ \E k \in 1..MaxConcurrency : BatchBuildFails(k)
    \/ BatchDone
    \/ TakeResult

SpecBatch == InitBatch /\ [][NextBatch]_vars

(***************************************************************************)
(* file-processor.js: getOutputPath, and the two checks of a path's shape  *)
(* in installations whose root directory has any name.                     *)
(***************************************************************************)
\* s.replace(sub, r) for a string pattern: the first occurrence only
replaceString(s, sub, r) ==
    LET replacedAt(idx) ==
            IF idx = -1 THEN s
            ELSE SubSeq(s, 1, idx) \o r \o SubSeq(s, idx + Len(sub) + 1, Len(s))
    IN  replacedAt(strIndexOf(s, sub))

\* getRelativePathFromRoot(moodleRoot, filePath)
getRelativePathFromRoot(root, filePath) == normalizePath(relative(root, filePath))

\* path.join(a, b) of an absolute POSIX path and a relative one
path_join(a, b) ==
    <<"/">> \o join(normalizeSegments(split(a \o <<"/">> \o b, "/"), <<>>), <<"/">>)

\* getOutputPath(sourcePath) of a FileProcessor with this.moodleRoot = root
getOutputPath(root, sourcePath) ==
    LET relativePath == getRelativePathFromRoot(root, sourcePath)
        outputRelativePath ==
            replaceString(replaceString(relativePath, <<"a", "m", "d", "/", "s", "r", "c">>, <<"a", "m", "d", "/", "b", "u", "i", "l", "d">>),
                          <<".", "j", "s">>, <<".", "m", "i", "n", ".", "j", "s">>)
    IN  path_join(root, outputRelativePath)

\* root directories: plain, and with amd and src among their own segments
PathRoots == {S_root, <<"/", "a", "m", "d", "/", "m">>, <<"/", "a", "m", "d", "/", "s", "r", "c", "/", "m">>}

\* component paths C, some with the text amd/src or .js inside a segment
OutputDirs == {S_mod_forum, S_lib, <<"l", "o", "c", "a", "l", "/", "x", "a", "m", "d", "/", "s", "r", "c", "s">>, <<"l", "i", "b", "/", "c", "h", "a", "r", "t", ".", "j", "s">>}

\* file sub-paths F without the extension
OutputStems == Stems \cup {<<"x", ".", "j", "s", "o", "n">>}

InitPaths ==
    /\ moodleRoot \in PathRoots
    /\ configFile \in {NoFile, ExampleConfig}
    /\ componentCache = NullCache
    /\ subsystems = <<>>
    /\ pluginTypes = <<>>
    /\ lastCall = NoCall
    /\ remembered = NotRemembered
    /\ siblings = {}
    /\ stats = NoStats
    /\ pending = <<>>
    /\ emitted = NotEmitted
    /\ run = NoRun
    /\ written = NoText
    /\ source = <<>>
    /\ passes = 0

\* getOutputPath(<moodleRoot>/<C>/amd/src/<F>.js)
GetOutputPath(C, F) ==
    /\ Idle
    /\ lastCall' = Called("getOutputPath", [C |-> C, F |-> F],
                          getOutputPath(moodleRoot, SourceFile(C, F)))
    /\ UNCHANGED <<moodleRoot, configFile, componentCache, subsystems, pluginTypes,
                   remembered, siblings, stats, pending, emitted, run, written, source,
                   passes>>

NextPaths ==
    \/ \E C \in OutputDirs, F \in OutputStems : GetOutputPath(C, F)
    \/ \E filePath \in BuildFilePaths(moodleRoot) : IsValidMoodleAmdPath(filePath)
    \/ \E filePath \in BuildFilePaths(moodleRoot) : GetModuleNameFromPath(filePath)
    \/ TakeResult

SpecPaths == InitPaths /\ [][NextPaths]_vars

(***************************************************************************)
(* The resolver over several load cycles, while the configuration file is  *)
(* rewritten between and during them.                                      *)
(***************************************************************************)
OtherConfig ==
    [kind |-> "object", subsystems |-> << <<S_quiz, S_mod_quiz>> >>,
     plugintypes |-> <<>>]

CycleConfigs == {NoFile, ExampleConfig, OtherConfig}

CycleRelativePaths ==
    {under(<<S_lib_access, S_amd, S_src, S_x_js>>),
     under(<<S_mod_quiz, S_amd, S_src, S_x_js>>),
     under(<<S_mod_forum, S_src, S_x_js>>)}

CycleFilePaths(root) == {pathJoin(root, rel) : rel \in CycleRelativePaths}

\* component paths passed to resolveComponentName directly: registry entries,
\* paths no entry matches, and paths written with slashes or underscores at
\* their ends
CycleComponentPaths ==
    {S_lib_access, S_mod_quiz, <<>>, S_lib, <<"l", "o", "c", "a", "l", "/", "x", "/", "y">>, <<"/", "t", "h", "e", "m", "e", "/", "b", "o", "o", "s", "t", "/">>, <<"_">>, <<"_", "a", "_", "b">>}

InitCycle == Init /\ configFile \in CycleConfigs

\* lib/components.json is written, rewritten or removed
ChangeConfig(file) ==
    /\ file # configFile
    /\ configFile' = file
    /\ UNCHANGED <<moodleRoot, componentCache, subsystems, pluginTypes, lastCall,
                   remembered, siblings, stats, pending, emitted, run, written, source,
                   passes>>

NextCycle ==
    \/ \E filePath \in CycleFilePaths(moodleRoot) : GetModuleNameFromPath(filePath)
    \/ \E componentPath \in CycleComponentPaths : ResolveComponentName(componentPath)
    \/ GetSubsystems
    \/ GetPluginTypes
    \/ ClearCache
    \/ \E file \in CycleConfigs : ChangeConfig(file)
    \/ TakeResult

SpecCycle == InitCycle /\ [][NextCycle]_vars


(***************************************************************************)
(* The dependency parser run on the text of one dependency array, as       *)
(* captured from a define() call.                                          *)
(***************************************************************************)
\* the elements of a written dependency array: a specifier in one of the
\* three quotes, or a name that is not a string literal
ArrayElements ==
    {[form |-> "'", specifier |-> <<"a">>], [form |-> "\"", specifier |-> <<"b", "/", "c">>],
     [form |-> Backtick, specifier |-> <<"d">>], [form |-> "name", specifier |-> <<"d", "e", "p">>]}

WrittenArrays ==
    {[NoText EXCEPT !.kind = "deps", !.statements = st, !.comma = c, !.body = sep] :
        st \in SeqsUpTo(ArrayElements, MaxDeps), c \in BOOLEAN, sep \in {<<",", " ">>, <<",", "\n", " ", " ", " ", " ">>}}

\* the text of an element of the array
elementText(e) ==
    IF e.form = "name" THEN e.specifier
    ELSE IF e.form = Backtick THEN <<Backtick>> \o e.specifier \o <<Backtick>>
    ELSE <<e.form>> \o e.specifier \o <<e.form>>

\* the text of the array
depsText(w) ==
    <<"[">> \o join([k \in 1..Len(w.statements) |-> elementText(w.statements[k])], w.body)
         \o (IF w.comma THEN <<",">> ELSE <<>>) \o <<"]">>

InitDeps ==
    /\ moodleRoot \in {S_root}
    /\ configFile = NoFile
    /\ componentCache = NullCache
    /\ subsystems = <<>>
    /\ pluginTypes = <<>>
    /\ lastCall = NoCall
    /\ remembered = NotRemembered
    /\ siblings = {}
    /\ stats = NoStats
    /\ pending = <<>>
    /\ emitted = NotEmitted
    /\ run = NoRun
    /\ written \in WrittenArrays
    /\ source = depsText(written)
    /\ passes = 0

\* parseDependencies(dependenciesStr) on the text of the array
ParseDependencies ==
    /\ Idle
    /\ lastCall' = [Called("parseDependencies", source, parseDependencies(source))
                        EXCEPT !.warned = warnsCouldNotParse(source)]
    /\ UNCHANGED <<moodleRoot, configFile, componentCache, subsystems, pluginTypes,
                   remembered, siblings, stats, pending, emitted, run, written, source,
                   passes>>

\* transformExistingAmd(amdMatch, moduleId, options) on a match whose
\* dependencies are the text of the array
TransformExistingAmd(moduleId, options) ==
    /\ Idle
    /\ lastCall' = Called("transformExistingAmd", [moduleId |-> moduleId, options |-> options],
                          transformExistingAmd([dependencies |-> source, params |-> <<"a">>,
                                                body |-> OneLineBody], moduleId, options))
    /\ UNCHANGED <<moodleRoot, configFile, componentCache, subsystems, pluginTypes,
                   remembered, siblings, stats, pending, emitted, run, written, source,
                   passes>>

NextDeps ==
    \/ ParseDependencies
    \/ \E moduleId \in ModuleIds, options \in OptionSets : TransformExistingAmd(moduleId, options)
    \/ TakeResult

SpecDeps == InitDeps /\ [][NextDeps]_vars
(***************************************************************************)
(* Properties of the transformer, checked under SpecTransformer.           *)
(***************************************************************************)
\* the call under way is op, on the file as its author wrote it
Asked(op) == lastCall.op = op /\ passes = 0

\* the parts a recognizer is said to capture
Captured(name, dependencies, params, body) ==
    [null |-> FALSE, name |-> name, dependencies |-> dependencies, params |-> params,
     body |-> body]

\* C11: detectExistingAmd returns the match of the first of its three
\* recognizers that matches, in the order array + function, name + array +
\* function, bare function: the array text, parameter text and body text of
\* an unnamed or a named module, '[]' for a bare function, and for a named
\* module whose body ends with an unnamed define call the parts of that inner
\* call, which recognizer (1) matches; the name of a named module does not
\* reach the output; an ES module gives null.
C11_FirstRecognizer ==
    /\ Asked("detectExistingAmd") =>
           LET w == written
               array == arrayText(w.deps, w.quote, w.comma)
           IN  CASE w.kind = "unnamed" ->
                        lastCall.result = Captured(Undefined, array, w.params, w.body)
                 [] w.kind = "named" /\ w.body # InnerModule ->
                        lastCall.result = Captured(w.name, array, w.params, w.body)
                 [] w.kind = "named" /\ w.body = InnerModule ->
                        lastCall.result =
                            Captured(Undefined, <<"[", "\"", "b", "/", "c", "\"", "]">>, <<"b">>, <<" ", "r", "e", "t", "u", "r", "n", " ", "b", ";", " ", "}", ")", ";", " ">>)
                 [] w.kind = "bare" ->
                        lastCall.result = Captured(Undefined, <<"[", "]">>, w.params, w.body)
                 [] OTHER -> lastCall.result.null
    /\ (Asked("transformToAmd") /\ written.kind = "named") =>
           strIndexOf(lastCall.result, written.name) = -1

\* C11's case: a named module whose body is an unnamed define call, which
\* both recognizer (1) and recognizer (2) match, has been detected
C11_Witness ==
    /\ Asked("detectExistingAmd")
    /\ written.kind = "named"
    /\ written.body = InnerModule
    /\ lastCall.result.dependencies = <<"[", "\"", "b", "/", "c", "\"", "]">>

\* the text JSON.stringify is said to give for the listed specifiers
listed(deps) ==
    <<"[">> \o join([k \in 1..Len(deps) |-> <<"\"">> \o deps[k] \o <<"\"">>], <<",">>) \o <<"]">>

emittedBody(output) ==
    SubSeq(output, strIndexOf(output, <<")", " ", "{">>) + 4, Len(output) - 3)

\* C13 as stated: the parameter text and the body text of the emitted
\* callback are the written parameter text and body text, character by
\* character (the white space around the body aside), for one-line and
\* many-line bodies.
C13_AsStated ==
    (Asked("transformToAmd") /\ written.kind \in {"unnamed", "named", "bare"}
         /\ written.body # InnerModule) =>
        /\ strIndexOf(lastCall.result, <<"f", "u", "n", "c", "t", "i", "o", "n", "(">> \o written.params \o <<")", " ", "{">>) # -1
        /\ trim(emittedBody(lastCall.result)) = trim(written.body)

\* the specifiers of the import and require statements, in the order written
RECURSIVE specifiersOf(_)
specifiersOf(statements) ==
    IF statements = <<>> THEN <<>>
    ELSE (IF Head(statements).form \in {"import", "require"}
          THEN <<Head(statements).specifier>> ELSE <<>>)
             \o specifiersOf(Tail(statements))

\* C15 as stated: extractDependencies returns the distinct specifiers of the
\* import and require forms in the order of their first occurrence in the
\* text, whichever form each occurs in.
C15_AsStated ==
    (Asked("extractDependencies") /\ written.kind = "es") =>
        lastCall.result = distinct(specifiersOf(written.statements))

\* C16: for an ES module the output begins with the dependency array and
\* the parameters dep0..dep(n-1), n the length of that array; each written
\* var v = require('s') reads var v = depK with K the index of s in the
\* array, and no require is left.
C16_SameIndex ==
    (Asked("transformToAmd") /\ written.kind = "es") =>
        LET array == extractDependencies(source)
            params == join([k \in 1..Len(array) |-> <<"d", "e", "p">> \o toString(k - 1)], <<",", " ">>)
        IN  /\ startsWith(lastCall.result,
                          <<"d", "e", "f", "i", "n", "e", "(", "\"">> \o lastCall.arg.moduleId \o <<"\"", ",", " ">> \o listed(array)
                              \o <<",", " ", "f", "u", "n", "c", "t", "i", "o", "n", "(">> \o params \o <<")", " ", "{">>)
            /\ \A i \in 1..Len(written.statements) :
                   written.statements[i].form = "require" =>
                       \E k \in 1..Len(array) :
                           /\ array[k] = written.statements[i].specifier
                           /\ strIndexOf(lastCall.result,
                                         <<"v", "a", "r", " ", "v", " ", "=", " ", "d", "e", "p">> \o toString(k - 1) \o <<";">>) # -1
            /\ strIndexOf(lastCall.result, T_require) = -1

\* C16's case: a module that imports a and requires b/c, whose require has
\* become dep1
C16_Witness ==
    /\ Asked("transformToAmd")
    /\ written.kind = "es"
    /\ specifiersOf(written.statements) = <<<<"a">>, <<"b", "/", "c">>>>
    /\ written.statements[2].form = "require"
    /\ strIndexOf(lastCall.result, <<"f", "u", "n", "c", "t", "i", "o", "n", "(", "d", "e", "p", "0", ",", " ", "d", "e", "p", "1", ")", " ", "{">>) # -1
    /\ strIndexOf(lastCall.result, <<"v", "a", "r", " ", "v", " ", "=", " ", "d", "e", "p", "1", ";">>) # -1

\* C17 as stated: a module that only imports a default binding from S and
\* only exports it as default becomes a define call with the array [S], one
\* parameter, and a body that ends with a return of the exported value.
C17_AsStated ==
    (Asked("transformToAmd") /\ written.kind = "es"
         /\ Len(written.statements) = 2
         /\ written.statements[1].form = "import"
         /\ written.statements[2].form = "export") =>
        /\ startsWith(lastCall.result,
                      <<"d", "e", "f", "i", "n", "e", "(", "\"">> \o lastCall.arg.moduleId \o <<"\"", ",", " ">>
                          \o listed(<<written.statements[1].specifier>>)
                          \o <<",", " ", "f", "u", "n", "c", "t", "i", "o", "n", "(", "d", "e", "p", "0", ")", " ", "{">>)
        /\ startsWith(trim(emittedBody(lastCall.result)), T_return)

(***************************************************************************)
(* Properties of the plugin, checked under SpecPlugin.                     *)
(***************************************************************************)
\* how many times sub occurs in s
occurrences(s, sub) ==
    Cardinality({p \in 0..(Len(s) - Len(sub)) : SubSeq(s, p + 1, p + Len(sub)) = sub})

T_return_default == <<"r", "e", "t", "u", "r", "n", " ", "e", "x", "p", "o", "r", "t", "s", ".", "d", "e", "f", "a", "u", "l", "t">>

\* C14 as stated: the output of a transform, applied to a file as written or
\* to its own earlier output, carries the module name once and at most one
\* return of the default export that the file as written did not have.
C14_AsStated ==
    (lastCall.op = "transform" /\ ~lastCall.result.null) =>
        /\ occurrences(lastCall.result.code, <<"m", "o", "d", "_", "f", "o", "r", "u", "m", "/", "x">>) = 1
        /\ occurrences(lastCall.result.code, T_return_default)
               <= occurrences(text(written), T_return_default) + 1

\* C18 as stated: where the written body has a default-export marker and no
\* return of exports.default, the returned code has return exports.default;
\* as the last statement of the define callback.
C18_AsStated ==
    (Asked("transform") /\ ~lastCall.result.null
         /\ hasDefaultExport(written.body)
         /\ occurrences(written.body, T_return_default) = 0) =>
        endsWith(trimEnd(SubSeq(lastCall.result.code, 1, Len(lastCall.result.code) - 3)),
                 <<"r", "e", "t", "u", "r", "n", " ", "e", "x", "p", "o", "r", "t", "s", ".", "d", "e", "f", "a", "u", "l", "t", ";">>)

(***************************************************************************)
(* Properties of processMultipleFiles, checked under SpecBatch.            *)
(***************************************************************************)
\* the call of processMultipleFiles has returned
Returned == lastCall.op = "processMultipleFiles"

\* the positions of the list whose path the resolver rejects
Rejected(files) ==
    {i \in 1..Len(files) :
        ~getModuleNameFromPath(self, moodleRoot, configFile, files[i]).result.ok}

\* the positions of the results that record a failed build
BuildFailed(results) ==
    {i \in 1..Len(results) : results[i].error = S_build_failed}

\* C19: once processMultipleFiles has returned for a list of N files of which
\* M have a path the resolver rejects, and every build that was started
\* succeeded, the counts are failed = M, succeeded = N - M and processed = N,
\* whatever the concurrency and wherever the rejected paths are in the list.
C19_Counts ==
    (Returned /\ BuildFailed(lastCall.result) = {}) =>
        LET N == Len(lastCall.arg.files)
            M == Cardinality(Rejected(lastCall.arg.files))
        IN  /\ stats.failed = M
            /\ stats.succeeded = N - M
            /\ stats.processed = N

\* a run of three files in batches of two has returned, a rejected path
\* being second in the list and the other builds having succeeded
C19_Witness ==
    /\ Returned
    /\ BuildFailed(lastCall.result) = {}
    /\ Len(lastCall.arg.files) = 3
    /\ lastCall.arg.concurrency = 2
    /\ Rejected(lastCall.arg.files) = {2}
    /\ stats.failed = 1
    /\ stats.succeeded = 2

\* C20: processMultipleFiles returns one result per file of the list, in the
\* order of the list; the result of a file whose name resolution or build
\* failed has success = false and carries the error, and the results of the
\* files after it are there all the same.
C20_OneResultPerFile ==
    Returned =>
        LET files == lastCall.arg.files
            results == lastCall.result
        IN  /\ Len(results) = Len(files)
            /\ \A i \in 1..Len(files) :
                   /\ results[i].done
                   /\ results[i].filePath = files[i]
                   /\ results[i].success <=> results[i].error = "none"
                   /\ i \in Rejected(files) =>
                          /\ ~results[i].success
                          /\ results[i].error =
                                 getModuleNameFromPath(self, moodleRoot, configFile,
                                                       files[i]).result.error

\* a run has returned in which the first file was rejected by the resolver,
\* the build of the second failed and the third was built
C20_Witness ==
    /\ Returned
    /\ Len(lastCall.result) = 3
    /\ 1 \in Rejected(lastCall.arg.files)
    /\ lastCall.result[1].error # "none"
    /\ lastCall.result[2].error = S_build_failed
    /\ lastCall.result[3].success

(***************************************************************************)
(* Further properties of processMultipleFiles, checked under SpecBatch.    *)
(***************************************************************************)
\* the files whose processSingleFile call has not returned
InFlight == {k \in 1..Len(run.slots) : ~run.slots[k].done}

\* the batches one after another
RECURSIVE flat(_)
flat(batches) == IF batches = <<>> THEN <<>> ELSE Head(batches) \o flat(Tail(batches))

\* C21: while processMultipleFiles runs with concurrency c, at most c files
\* are in flight; the files started so far are the first files of the list,
\* in order, and all of them but those of the batch being awaited have
\* finished; the batches together are the list itself.
C21_OneBatchAtATime ==
    run.active =>
        LET started == run.results \o run.slots
        IN  /\ Cardinality(InFlight) <= run.concurrency
            /\ Len(run.slots) <= run.concurrency
            /\ Len(started) <= Len(run.files)
            /\ \A i \in 1..Len(started) : started[i].filePath = run.files[i]
            /\ \A i \in 1..Len(run.results) : run.results[i].done
            /\ Len(run.results) = run.batch * run.concurrency
            /\ flat(chunkArray(run.files, run.concurrency)) = run.files

\* the second batch of a run of three files with concurrency 2 is in flight
C21_Witness ==
    /\ run.active
    /\ run.concurrency = 2
    /\ Len(run.files) = 3
    /\ run.batch = 1
    /\ Len(run.results) = 2
    /\ InFlight = {1}

(***************************************************************************)
(* Properties of the path functions, checked under SpecPaths.              *)
(***************************************************************************)
\* C22 as stated: getOutputPath of <root>/<C>/amd/src/<F>.js is
\* <root>/<C>/amd/build/<F>.min.js, for every component path C and file
\* sub-path F.
C22_AsStated ==
    lastCall.op = "getOutputPath" =>
        lastCall.result =
            moodleRoot \o <<"/">> \o lastCall.arg.C \o <<"/", "a", "m", "d", "/", "b", "u", "i", "l", "d", "/">> \o lastCall.arg.F
                \o <<".", "m", "i", "n", ".", "j", "s">>

\* C30 as stated: isValidMoodleAmdPath accepts the absolute path of a file
\* exactly when getModuleNameFromPath does not reject the file as an invalid
\* path, whatever the segments of the root directory are.
C30_AsStated ==
    lastCall.op = "isValidMoodleAmdPath" =>
        (lastCall.result.ok <=>
             getModuleNameFromPath(self, moodleRoot, configFile,
                                   lastCall.arg).result.error
                 \notin {"InvalidPath", "InvalidFileName"})

(***************************************************************************)
(* Properties of the resolver's cache, checked under SpecCycle.            *)
(***************************************************************************)
\* the step is a call of op
Calls(op) == Idle /\ lastCall'.op = op

\* the step is a call that asks for the component maps: every call of
\* resolveComponentName, getSubsystems and getPluginTypes, and a call of
\* getModuleNameFromPath whose path has a marker and a file name
Consults ==
    \/ Calls("resolveComponentName")
    \/ Calls("getSubsystems")
    \/ Calls("getPluginTypes")
    \/ /\ Calls("getModuleNameFromPath")
       /\ lastCall'.result.error \notin {"InvalidPath", "InvalidFileName"}

\* the resolver as the constructor and clearCache leave it
Cleared == [cache |-> NullCache, subsystems |-> <<>>, pluginTypes |-> <<>>]

C24_ReadOnlyAfterLoad ==
    [][(/\ ~componentCache.null
        /\ Idle
        /\ lastCall'.op \in {"getModuleNameFromPath", "resolveComponentName",
                             "getSubsystems", "getPluginTypes"}) =>
           UNCHANGED <<componentCache, subsystems, pluginTypes>>]_vars

\* a file has been named from the loaded maps after the configuration file
\* was rewritten
C24_Witness ==
    /\ lastCall.op = "getModuleNameFromPath"
    /\ lastCall.result = Return(<<"c", "o", "r", "e", "_", "a", "c", "c", "e", "s", "s", "/", "x">>)
    /\ ~lastCall.read
    /\ configFile = OtherConfig
    /\ subsystems # <<>>


\* the specifiers a written array holds in quotes, in order
RECURSIVE quotedSpecifiers(_)
quotedSpecifiers(elements) ==
    IF elements = <<>> THEN <<>>
    ELSE (IF Head(elements).form = "name" THEN <<>> ELSE <<Head(elements).specifier>>)
             \o quotedSpecifiers(Tail(elements))

underscored(s) == [i \in 1..Len(s) |-> IF s[i] = "/" THEN "_" ELSE s[i]]

\* t is s without the underscores at its two ends
IsTrimmed(t, s) ==
    /\ t = <<>> \/ (t[1] # "_" /\ t[Len(t)] # "_")
    /\ \E a \in 0..Len(s) :
          /\ a + Len(t) <= Len(s)
          /\ t = SubSeq(s, a + 1, a + Len(t))
          /\ \A i \in (1..a) \cup ((a + Len(t) + 1)..Len(s)) : s[i] = "_"

C27_AsStated ==
    (lastCall.op = "transformToAmd" /\ written.kind = "wrapped" /\ passes = 0) =>
        (strIndexOf(lastCall.result, <<"(", "f", "u", "n", "c", "t", "i", "o", "n">>) >= 0
            <=> strIndexOf(lastCall.result, written.name) >= 0)

\* C28 as stated: the code the plugin returns for a module with a dependency
\* array still holds the text of the call from the array to the closing
\* parenthesis of the callback's parameter list, as it was written.
C28_AsStated ==
    (Asked("transform") /\ ~lastCall.result.null /\ written.kind \in {"unnamed", "named"}) =>
        strIndexOf(lastCall.result.code,
                   arrayText(written.deps, written.quote, written.comma)
                       \o <<",", " ", "f", "u", "n", "c", "t", "i", "o", "n", "(">> \o written.params \o <<")">>) >= 0

\* C29: whenever no processSingleFile continuation is running, during a run
\* and after it, processed = succeeded + failed and skipped = 0; during a run
\* processed is the number of files of the run whose result is settled, and
\* after it the number of files the call was given.
C29_CountersConsistent ==
    /\ stats.processed = stats.succeeded + stats.failed
    /\ stats.skipped = 0
    /\ run.active =>
           /\ stats.processed <= Len(run.files)
           /\ stats.processed =
                  Len(run.results) + Cardinality({k \in 1..Len(run.slots) : run.slots[k].done})
    /\ lastCall.op = "processMultipleFiles" =>
           stats.processed = Len(lastCall.arg.files)

\* C29's case: in the second batch of a run one file has failed, one has
\* succeeded and one is still being built
C29_Witness ==
    /\ run.active
    /\ InFlight # {}
    /\ stats.succeeded = 1
    /\ stats.failed = 1
    /\ stats.processed = 2
====
